---- MODULE Spec2Model ----
(***************************************************************************)
(* A model of the conversation runtime of the `line` package:             *)
(*   - ReasoningNode (src/line/nodes/reasoning.py): the history list, the  *)
(*     add_event merge, clear_context, _build_conversation_context and the *)
(*     generate template method, run as an async generator;               *)
(*   - the example wiring of examples/basic_chat_configurable/main.py: a  *)
(*     map rule (UserTranscriptionReceived -> add_event) and a stream rule *)
(*     (UserStoppedSpeaking -> generate, interrupted by                    *)
(*     UserStartedSpeaking);                                               *)
(*   - the Bus and the Bridge, whose sources (line/bus.py, line/bridge.py, *)
(*     line/routes.py, line/nodes/base.py) are not part of the source      *)
(*     tree: they are modelled from sections 4.1, 4.2 and 5 of the spec.   *)
(*                                                                         *)
(* Python lists are objects: two names may hold the same list, and an      *)
(* in-place append through one is seen through the other.  The model keeps *)
(* lists in a heap (list id -> contents); a field that holds a list holds  *)
(* its id.                                                                 *)
(***************************************************************************)
EXTENDS Integers, Sequences, FiniteSets, TLC

\* ------------------------------------------------------------------ bounds
\* Stream tasks (generations) the bridge may create in one run.
MaxTasks == 2
\* add_event calls in one run, from generate and from outside it together.
MaxEvents == 3
\* clear_context calls in one run of the direct-call specification.
MaxClears == 1
\* Events published on the bus in one run.
MaxPublish == 3

\* The receive_json calls that return or raise something but a disconnect.
MaxRecv == 2

\* The calls of send operations in one run.
MaxSends == 2

\* The time units one run lasts.
MaxTime == 2

\* _EventsRegistry() calls in one run.
MaxHandles == 2
\* register calls in one run.
MaxRegisters == 3

\* Tool calls in one response of the model.
MaxToolCalls == 2
\* Invocations of EscalationNode.process_context in one run.
MaxRuns == 2

\* Events in one ConversationContext.
MaxContext == 3

\* ------------------------------------------------------------------ events
\* An event is a record [kind, content].  `content` is the str field of
\* AgentResponse, AgentSpeechSent and UserTranscriptionReceived, as a
\* sequence of characters; for ToolCall and ToolResult it stands for
\* tool_name; AgentGenerationComplete has no field.
AgentResponse(c) == [kind |-> "AgentResponse", content |-> c]

AgentSpeechSent(c) == [kind |-> "AgentSpeechSent", content |-> c]

UserTranscriptionReceived(c) == [kind |-> "UserTranscriptionReceived", content |-> c]

ToolCall(n) == [kind |-> "ToolCall", content |-> n]

ToolResult(n) == [kind |-> "ToolResult", content |-> n]

AgentGenerationComplete == [kind |-> "AgentGenerationComplete", content |-> <<>>]

\* line.bus.Message: the envelope the bridge hands to a map handler.
Message(e) == [kind |-> "Message", content |-> <<>>, event |-> e]

\* The tuple of add_event, in the order the loop tries the types.
mergeable_events == <<"AgentResponse", "AgentSpeechSent", "UserTranscriptionReceived">>

\* The events process_context yields in the model: text chunks and a tool
\* result, as CustomerServiceNode.process_context does.
Chunks ==
    {AgentResponse(<<"x">>), AgentResponse(<<"y">>), ToolResult(<<"t">>)}

\* The transcriptions that arrive from the user.
Transcripts == {UserTranscriptionReceived(<<"a">>), UserTranscriptionReceived(<<"b">>)}

\* The events a direct caller passes to add_event.
DirectEvents ==
    {Message(UserTranscriptionReceived(<<"a">>)), UserTranscriptionReceived(<<"b">>),
     AgentSpeechSent(<<"s">>)}

\* The values max_context_length is constructed with: 0, and lengths that
\* histories of the model stay below, reach and exceed.
ContextLengths == {0, 1, 2}

\* The event types published on the bus in the model.
BusEventTypes == {"UserStoppedSpeaking", "UserTranscriptionReceived", "UserStartedSpeaking"}

\* The subscribers of the model and the event type each one filters on.
Subscribers == {"s1", "s2", "s3"}

Filter ==
    [s \in Subscribers |->
        CASE s = "s1" -> "UserStoppedSpeaking"
          [] s = "s2" -> "UserTranscriptionReceived"
          [] s = "s3" -> "UserStoppedSpeaking"]

\* ------------------------------------------------------- the event registry
\* The event classes the model registers.
RegisteredTypes == {"AgentResponse", "ToolCall", "EndCall"}

\* An alias argument: a str, or a value of another type.
Str(s) == [is_str |-> TRUE, value |-> s]
NotStr(v) == [is_str |-> FALSE, value |-> v]
Aliases == {Str("agent.response"), Str("tool.call"), NotStr("7")}

\* Instances of _EventsRegistry; NoInstance is None.
InstanceIds == 1 .. MaxHandles
NoInstance == 0

\* {} as a dict.
EmptyDict == [et \in {} |-> Str("")]

\* self.events.get(event_type, None); None is NotStr("None").
get(events, event_type) ==
    IF event_type \in DOMAIN events THEN events[event_type] ELSE NotStr("None")

\* register that assigns without looking for the event type first.
register_overwrites(events, alias, event_type) ==
    IF ~alias.is_str
    THEN [raised |-> "TypeError", events |-> events]
    ELSE [raised |-> "none",
          events |-> [et \in DOMAIN events \cup {event_type} |->
                         IF et = event_type THEN alias ELSE events[et]]]

\* register(alias, event_type) on the dict: what is raised and the dict after.
register(events, alias, event_type) ==
    IF event_type \in DOMAIN events
    THEN [raised |-> "ValueError", events |-> events]
    ELSE IF ~alias.is_str
    THEN [raised |-> "TypeError", events |-> events]
    ELSE [raised |-> "none",
          events |-> [et \in DOMAIN events \cup {event_type} |->
                         IF et = event_type THEN alias ELSE events[et]]]

\* No register call yet.
NoRegister ==
    [handle |-> NoInstance, alias |-> NotStr("None"), event_type |-> "none",
     raised |-> "none", before |-> EmptyDict]

\* ------------------------------------------------------ ConversationContext
\* The events a context of the model holds: one of every kind the transcript
\* takes, and kinds it leaves out.
ContextEvents ==
    {UserTranscriptionReceived(<<"a">>), AgentSpeechSent(<<"s">>),
     AgentResponse(<<"x">>), ToolResult(<<"t">>), ToolCall(<<"c">>)}

\* get_committed_transcript that takes the generated responses as well.
get_committed_transcript_with_responses(events) ==
    LET RECURSIVE turns(_)
        turns(i) ==
            IF i > Len(events) THEN <<>>
            ELSE IF events[i].kind \in {"UserTranscriptionReceived", "AgentResponse"}
                 THEN <<events[i]>> \o turns(i + 1)
            ELSE IF events[i].kind = "AgentSpeechSent"
                 THEN <<AgentResponse(events[i].content)>> \o turns(i + 1)
            ELSE turns(i + 1)
    IN  turns(1)

\* get_committed_transcript (lines 63-71): the loop over self.events.
get_committed_transcript(events) ==
    LET RECURSIVE turns(_)
        turns(i) ==
            IF i > Len(events) THEN <<>>
            ELSE IF events[i].kind = "UserTranscriptionReceived"
                 THEN <<events[i]>> \o turns(i + 1)
            ELSE IF events[i].kind = "AgentSpeechSent"
                 THEN <<AgentResponse(events[i].content)>> \o turns(i + 1)
            ELSE turns(i + 1)
    IN  turns(1)

\* No call of get_committed_transcript yet.
NotCalled == [called |-> FALSE, turns |-> <<>>, events |-> <<>>]

\* ------------------------------------------------------------------ state
TaskIds == 1 .. MaxTasks

\* One list for the node, one per generator frame, one spare for allocation.
ListIds == 1 .. (MaxTasks + 2)

\* The value of a field that holds no list.
NoList == 0

VARIABLES
    heap,                \* list id -> the list's contents
    conversation_events, \* the id of the list self.conversation_events holds
    max_context_length,  \* self.max_context_length
    tasks,               \* task id -> the generator of one generate() call
    next_task,           \* the id the next generate() call gets
    cleared_events,      \* the list the last clear_context returned
    n_adds,              \* add_event calls made since Init
    n_clears,            \* clear_context calls made
    add_log,             \* the events passed to add_event since the last clear_context
    queued_triggers,     \* bridge: UserStoppedSpeaking events waiting for the rule to be idle
    published,           \* bus: every event published, in publish order
    inbox,               \* bus: subscriber -> the messages its handler received
    subscriptions,       \* bus: the registered subscribers, in registration order
    shutdown_event,      \* harness: self.shutdown_event is set
    is_running,          \* harness: self.is_running
    input_task,          \* harness: where the task of _input_processor stands
    input_queue,         \* harness: self.input_queue, oldest entry first
    ws_connected,        \* harness: the transport has not disconnected
    cleanup_pc,          \* harness: where the last cleanup() call stands ("idle": none since start())
    rx_log,              \* harness: what receive_json returned or raised, in order
    enq_log,             \* harness: every message put on input_queue, in order
    got_log,             \* harness: every message get() returned, in order
    dispatched,          \* harness: the events map_to_events gave for them
    orphan_tasks,        \* harness: read tasks alive that self.input_task no longer names
    calls,               \* harness: caller -> the send operation it is in
    tx_log,              \* harness: every _send call, in order
    sent,                \* harness: the ids of the messages send_json transmitted
    now,                 \* harness: the time
    causes,              \* harness: what has set shutdown_event so far
    endpoint_pc,         \* app: where websocket_endpoint stands
    handler_exit,        \* app: how the call handler ended
    ep_log,              \* app: what websocket_endpoint called after the handler
    cls_instance,        \* registry: _EventsRegistry._instance (NoInstance: None)
    registries,          \* registry: instance -> its events dict (event type -> alias)
    handles,             \* registry: what each _EventsRegistry() call returned, in order
    reg_calls,           \* registry: register calls made
    last_register,       \* registry: the last register call and how it ended
    call_state,          \* togetherai: the CallState of the call
    cs_node,             \* togetherai: where CustomerServiceNode.process_context stands
    esc_node,            \* togetherai: where EscalationNode.process_context stands
    esc_runs,            \* togetherai: the invocations of EscalationNode.process_context that ended
    flag_writes,         \* togetherai: the assignments made to escalation_detected
    context_events,      \* context: the events of a ConversationContext
    committed_turns      \* context: what the last get_committed_transcript call returned

vars ==
    <<heap, conversation_events, max_context_length, tasks, next_task, cleared_events,
      n_adds, n_clears, add_log, queued_triggers, published, inbox, subscriptions,
      shutdown_event, is_running, input_task, input_queue, ws_connected, cleanup_pc,
      rx_log, enq_log, got_log, dispatched, calls, tx_log, sent, now, causes,
      endpoint_pc, handler_exit, ep_log,
      cls_instance, registries, handles, reg_calls, last_register,
      call_state, cs_node, esc_node, esc_runs, flag_writes,
      context_events, committed_turns, orphan_tasks>>

nodeVars ==
    <<heap, conversation_events, max_context_length, tasks, next_task, cleared_events,
      n_adds, n_clears, add_log, queued_triggers>>

busVars == <<published, inbox, subscriptions>>

inboundVars ==
    <<input_task, input_queue, ws_connected, cleanup_pc, rx_log, enq_log,
      got_log, dispatched, is_running, orphan_tasks>>

outboundVars == <<calls, tx_log, sent, now>>

harnessVars == <<shutdown_event, causes, inboundVars, outboundVars>>

endpointVars == <<endpoint_pc, handler_exit, ep_log>>

registryVars == <<cls_instance, registries, handles, reg_calls, last_register>>

callStateVars == <<call_state, cs_node, esc_node, esc_runs, flag_writes>>

contextVars == <<context_events, committed_turns>>

\* What the node and the bridge rules never touch.
restOfNode ==
    <<busVars, harnessVars, endpointVars, registryVars, callStateVars, contextVars>>

\* What the bus never touches.
restOfBus ==
    <<nodeVars, harnessVars, endpointVars, registryVars, callStateVars, contextVars>>

\* What the harness never touches.
restOfHarness ==
    <<nodeVars, busVars, endpointVars, registryVars, callStateVars, contextVars>>

\* What websocket_endpoint never touches.
restOfEndpoint ==
    <<nodeVars, busVars, registryVars, callStateVars, contextVars>>

\* What the event registry never touches.
restOfRegistry ==
    <<nodeVars, busVars, harnessVars, endpointVars, callStateVars, contextVars>>

\* What the nodes of the togetherai example never touch.
restOfCallState ==
    <<nodeVars, busVars, harnessVars, endpointVars, registryVars, contextVars>>

\* What a ConversationContext never touches.
restOfContext ==
    <<nodeVars, busVars, harnessVars, endpointVars, registryVars, callStateVars>>

\* ------------------------------------------------- ReasoningNode: pure parts
Max(a, b) == IF a >= b THEN a ELSE b

\* Python's lst[-m:] for m >= 0: -0 is 0, so lst[-0:] is the whole list.
SliceLast(lst, m) ==
    LET start == IF m = 0 THEN 0 ELSE Max(Len(lst) - m, 0)
    IN  SubSeq(lst, start + 1, Len(lst))

\* reasoning.py 191-192: a Message is unwrapped to its event.
Unwrap(event) == IF event.kind = "Message" THEN event.event ELSE event

\* The first type of mergeable_events that both events are instances of, or 0.
MergeType(last, event) ==
    LET hits == {i \in 1 .. Len(mergeable_events) :
                    event.kind = mergeable_events[i] /\ last.kind = mergeable_events[i]}
    IN  IF hits = {} THEN 0 ELSE CHOOSE i \in hits : \A j \in hits : i <= j

\* add_event without the merge loop: every event is appended.
add_event_always_append(lst, ev) == Append(lst, Unwrap(ev))

\* add_event whose merge concatenates the wrong way round.
add_event_prepend(lst, ev) ==
    LET event == Unwrap(ev)
    IN  IF Len(lst) = 0
        THEN Append(lst, event)
        ELSE LET last == lst[Len(lst)]
                 i == MergeType(last, event)
             IN  IF i # 0
                 THEN [lst EXCEPT ![Len(lst)] =
                          [kind |-> mergeable_events[i],
                           content |-> event.content \o last.content]]
                 ELSE Append(lst, event)

\* add_event whose merge assigns the new content instead of concatenating.
add_event_overwrite(lst, ev) ==
    LET event == Unwrap(ev)
    IN  IF Len(lst) = 0
        THEN Append(lst, event)
        ELSE LET last == lst[Len(lst)]
                 i == MergeType(last, event)
             IN  IF i # 0
                 THEN [lst EXCEPT ![Len(lst)] =
                          [kind |-> mergeable_events[i], content |-> event.content]]
                 ELSE Append(lst, event)

\* add_event that merges any two consecutive events of one kind, mergeable or not.
add_event_merges_same_kind(lst, ev) ==
    LET event == Unwrap(ev)
    IN  IF Len(lst) = 0
        THEN Append(lst, event)
        ELSE LET last == lst[Len(lst)]
             IN  IF last.kind = event.kind
                 THEN [lst EXCEPT ![Len(lst)] =
                          [kind |-> event.kind, content |-> last.content \o event.content]]
                 ELSE Append(lst, event)

\* add_event on the contents of the history list: the list after the call.
add_event(lst, ev) ==
    LET event == Unwrap(ev)
    IN  IF Len(lst) = 0
        THEN Append(lst, event)
        ELSE LET last == lst[Len(lst)]
                 i == MergeType(last, event)
             IN  IF i # 0
                 THEN [lst EXCEPT ![Len(lst)] =
                          [kind |-> mergeable_events[i],
                           content |-> last.content \o event.content]]
                 ELSE Append(lst, event)

\* ------------------------------------------------------------ the generator
\* A generator frame of generate():
\*   pc          created (not started), awaiting (inside process_context),
\*               at_yield (suspended at `yield chunk`), at_final (suspended at
\*               `yield AgentGenerationComplete()`), done, returned (the empty
\*               history return), cancelled, raised (an exception left
\*               generate for its caller)
\*   ctx_events  the id of the list ctx.events holds
\*   ctx_total   ctx.metadata["total_messages"]
\*   ctx0        the contents of ctx.events when the context was built
\*   out         the events generate has yielded to its caller
\*   nchunks     the chunks process_context has yielded
\*   pc_called   whether process_context was called
\*   interrupts  the times the interrupt handler ran for this task
\*   pc_raised   whether process_context raised an exception
NoTask ==
    [pc |-> "none", ctx_events |-> NoList, ctx_total |-> 0, ctx0 |-> <<>>, out |-> <<>>,
     nchunks |-> 0, pc_called |-> FALSE, interrupts |-> 0, pc_raised |-> FALSE]

Suspended == {"created", "awaiting", "at_yield", "at_final"}

\* The chunks a generation has yielded.
ChunksOf(t) == SelectSeq(tasks[t].out, LAMBDA ev : ev # AgentGenerationComplete)

Active(t) == tasks[t].pc \in Suspended

\* The lists some name still holds.
Live(ce, tk) == ({ce} \cup {tk[t].ctx_events : t \in TaskIds}) \ {NoList}

\* A list nothing holds is collected: its id is free again.
Collect(h, ce, tk) == [i \in ListIds |-> IF i \in Live(ce, tk) THEN h[i] ELSE <<>>]

\* The id a new list gets.
NewList(ce, tk) == CHOOSE i \in ListIds \ Live(ce, tk) : \A j \in ListIds \ Live(ce, tk) : i <= j

InitNode ==
    /\ heap = [i \in ListIds |-> <<>>]
    /\ conversation_events = 1
    /\ max_context_length \in ContextLengths
    /\ tasks = [t \in TaskIds |-> NoTask]
    /\ next_task = 1
    /\ cleared_events = <<>>
    /\ n_adds = 0
    /\ n_clears = 0
    /\ add_log = <<>>
    /\ queued_triggers = 0

InitBus ==
    /\ published = <<>>
    /\ inbox = [s \in Subscribers |-> <<>>]
    /\ subscriptions = <<>>

\* The tasks that call the harness's send operations.
Callers == {"c1", "c2"}

\* A caller that is in no send operation.
NoCall == [pc |-> "idle", op |-> "none", id |-> 0, t0 |-> 0, T |-> 0, sleep_until |-> 0]

\* harness.py 59-81: no read task, an empty queue, nothing running; the
\* shutdown event and the websocket are handed in fresh and connected.
InitHarness ==
    /\ shutdown_event = FALSE
    /\ is_running = FALSE
    /\ input_task = "none"
    /\ input_queue = <<>>
    /\ ws_connected = TRUE
    /\ cleanup_pc = "idle"
    /\ rx_log = <<>>
    /\ enq_log = <<>>
    /\ got_log = <<>>
    /\ dispatched = <<>>
    /\ orphan_tasks = 0
    /\ calls = [c \in Callers |-> NoCall]
    /\ tx_log = <<>>
    /\ sent = <<>>
    /\ now = 0
    /\ causes = {}

\* voice_agent_app.py 143-146: the endpoint is inside the call handler.
InitEndpoint ==
    /\ endpoint_pc = "handler"
    /\ handler_exit = "none"
    /\ ep_log = <<>>

\* events.py 220-238: the class is defined, no instance has been made.
InitRegistry ==
    /\ cls_instance = NoInstance
    /\ registries = [i \in InstanceIds |-> EmptyDict]
    /\ handles = <<>>
    /\ reg_calls = 0
    /\ last_register = NoRegister

\* config.py 54-58: a new CallState; no process_context is running.
InitCallState ==
    /\ call_state = [escalation_detected |-> FALSE]
    /\ cs_node = [pc |-> "idle", tool_calls |-> <<>>, task |-> 1, failed |-> FALSE,
                  before |-> <<>>]
    /\ esc_node = [pc |-> "idle", flag_at_entry |-> FALSE, events |-> 0]
    /\ esc_runs = <<>>
    /\ flag_writes = {}

\* conversation_context.py 14-30: a context with no events, not yet asked
\* for its transcript.
InitContext ==
    /\ context_events = <<>>
    /\ committed_turns = NotCalled

Init ==
    /\ InitNode /\ InitBus /\ InitHarness /\ InitEndpoint
    /\ InitRegistry /\ InitCallState /\ InitContext

\* The harness next to one node, whose context length plays no part in it.
InitCall == Init /\ max_context_length = 2

\* ------------------------------------------------------ ReasoningNode: calls
\* _build_conversation_context on a history: whether ctx.events is the history
\* list itself (no slice was taken) or a new list, and what it holds.
build_conversation_context(lst, m) ==
    [same_list |-> ~(Len(lst) > m),
     events |-> IF Len(lst) > m THEN SliceLast(lst, m) ELSE lst,
     max_context_length |-> m,
     total_messages |-> Len(lst)]

\* self.add_event(ev): the history list is changed in place.
AddToHistory(ev) ==
    /\ n_adds < MaxEvents
    /\ n_adds' = n_adds + 1
    /\ heap' = [heap EXCEPT ![conversation_events] = add_event(@, ev)]
    /\ add_log' = Append(add_log, Unwrap(ev))

\* node.add_event(event), called from outside a generation.
AddEventCall(ev) ==
    /\ AddToHistory(ev)
    /\ UNCHANGED <<conversation_events, max_context_length, tasks, next_task, cleared_events,
                   n_clears, queued_triggers>>
    /\ UNCHANGED restOfNode

\* node.clear_context(): a copy of the history is returned and the node gets a
\* new, empty list; a context that holds the old list keeps it.
\* clear_context with the copy taken after the reassignment: the caller gets
\* the fresh empty list instead of the events that were stored.
ClearContextCallReturnsNew ==
    /\ n_clears < MaxClears
    /\ n_clears' = n_clears + 1
    /\ cleared_events' = <<>>
    /\ conversation_events' = NewList(conversation_events, tasks)
    /\ heap' = Collect([heap EXCEPT ![conversation_events'] = <<>>], conversation_events', tasks)
    /\ add_log' = <<>>
    /\ UNCHANGED <<max_context_length, tasks, next_task, n_adds, queued_triggers>>
    /\ UNCHANGED restOfNode

\* clear_context that empties the history list in place (list.clear()) instead
\* of giving the node a new list.
ClearContextCallInPlace ==
    /\ n_clears < MaxClears
    /\ n_clears' = n_clears + 1
    /\ cleared_events' = heap[conversation_events]
    /\ conversation_events' = conversation_events
    /\ heap' = [heap EXCEPT ![conversation_events] = <<>>]
    /\ add_log' = <<>>
    /\ UNCHANGED <<max_context_length, tasks, next_task, n_adds, queued_triggers>>
    /\ UNCHANGED restOfNode

ClearContextCall ==
    /\ n_clears < MaxClears
    /\ n_clears' = n_clears + 1
    /\ cleared_events' = heap[conversation_events]
    /\ conversation_events' = NewList(conversation_events, tasks)
    /\ heap' = Collect([heap EXCEPT ![conversation_events'] = <<>>], conversation_events', tasks)
    /\ add_log' = <<>>
    /\ UNCHANGED <<max_context_length, tasks, next_task, n_adds, queued_triggers>>
    /\ UNCHANGED restOfNode

\* node.generate(message) is called: a generator is created, nothing runs yet.
NewGenerator ==
    /\ next_task <= MaxTasks
    /\ tasks' = [tasks EXCEPT ![next_task] = [NoTask EXCEPT !.pc = "created"]]
    /\ next_task' = next_task + 1

\* generate without the empty-history check of lines 112-113.
GenStartStepNoEmptyCheck(t) ==
    LET lst == heap[conversation_events]
        ctx == build_conversation_context(lst, max_context_length)
    IN  /\ tasks' = [tasks EXCEPT ![t] =
               [@ EXCEPT !.pc = "awaiting", !.ctx_events = conversation_events,
                         !.ctx_total = ctx.total_messages, !.ctx0 = ctx.events,
                         !.pc_called = TRUE]]
        /\ heap' = heap

\* The first step of generate, to its first suspension (lines 112-120): the
\* empty-history return, or the context is built and process_context is called.
GenStartStep(t) ==
    LET lst == heap[conversation_events]
        ctx == build_conversation_context(lst, max_context_length)
        id == IF ctx.same_list THEN conversation_events
              ELSE NewList(conversation_events, tasks)
    IN  IF Len(lst) = 0
        THEN /\ tasks' = [tasks EXCEPT ![t].pc = "returned"]
             /\ heap' = heap
        ELSE /\ tasks' = [tasks EXCEPT ![t] =
                    [@ EXCEPT !.pc = "awaiting", !.ctx_events = id,
                              !.ctx_total = ctx.total_messages, !.ctx0 = ctx.events,
                              !.pc_called = TRUE]]
             /\ heap' = [heap EXCEPT ![id] = ctx.events]

GenStart(t) ==
    /\ tasks[t].pc = "created"
    /\ GenStartStep(t)
    /\ UNCHANGED <<conversation_events, max_context_length, next_task, cleared_events,
                   n_adds, n_clears, add_log, queued_triggers>>
    /\ UNCHANGED restOfNode

\* generate that yields the chunk without saving it.
GenChunkStepNoSave(t, chunk) ==
    /\ n_adds < MaxEvents
    /\ n_adds' = n_adds + 1
    /\ heap' = heap
    /\ add_log' = add_log
    /\ tasks' = [tasks EXCEPT ![t] =
            [@ EXCEPT !.pc = "at_yield", !.out = Append(@, chunk), !.nchunks = @ + 1]]

\* process_context yields a chunk (lines 120-125): it is saved with add_event
\* and yielded to the caller, where generate is suspended.
GenChunkStep(t, chunk) ==
    /\ AddToHistory(chunk)
    /\ tasks' = [tasks EXCEPT ![t] =
            [@ EXCEPT !.pc = "at_yield", !.out = Append(@, chunk), !.nchunks = @ + 1]]

GenChunk(t, chunk) ==
    /\ tasks[t].pc = "awaiting"
    /\ GenChunkStep(t, chunk)
    /\ UNCHANGED <<conversation_events, max_context_length, next_task, cleared_events,
                   n_clears, queued_triggers>>
    /\ UNCHANGED restOfNode

\* The caller asks for the next event: generate goes back into process_context.
GenResume(t) ==
    /\ tasks[t].pc = "at_yield"
    /\ tasks' = [tasks EXCEPT ![t].pc = "awaiting"]
    /\ UNCHANGED <<heap, conversation_events, max_context_length, next_task, cleared_events,
                   n_adds, n_clears, add_log, queued_triggers>>
    /\ UNCHANGED restOfNode

\* generate that saves the completion event like a chunk before yielding it.
GenCompleteStepSaved(t) ==
    /\ tasks' = [tasks EXCEPT ![t] =
            [@ EXCEPT !.pc = "at_final", !.out = Append(@, AgentGenerationComplete)]]
    /\ heap' = [heap EXCEPT ![conversation_events] = add_event(@, AgentGenerationComplete)]

\* process_context's sequence ends (line 127): AgentGenerationComplete is yielded.
GenCompleteStep(t) ==
    /\ tasks' = [tasks EXCEPT ![t] =
            [@ EXCEPT !.pc = "at_final", !.out = Append(@, AgentGenerationComplete)]]
    /\ heap' = heap

GenComplete(t) ==
    /\ tasks[t].pc = "awaiting"
    /\ GenCompleteStep(t)
    /\ UNCHANGED <<conversation_events, max_context_length, next_task, cleared_events,
                   n_adds, n_clears, add_log, queued_triggers>>
    /\ UNCHANGED restOfNode

\* The caller asks for the next event after the last one: generate returns and
\* its frame (ctx) is dropped.
GenFinish(t) ==
    /\ tasks[t].pc = "at_final"
    /\ tasks' = [tasks EXCEPT ![t] =
            [@ EXCEPT !.pc = "done", !.ctx_events = NoList, !.ctx0 = <<>>]]
    /\ heap' = Collect(heap, conversation_events, tasks')
    /\ UNCHANGED <<conversation_events, max_context_length, next_task, cleared_events,
                   n_adds, n_clears, add_log, queued_triggers>>
    /\ UNCHANGED restOfNode

\* generate with the last yield in a `finally`: the completion event is
\* yielded to the caller while the exception is on its way out.
GenRaiseWithCompletion(t) ==
    /\ tasks[t].pc = "awaiting"
    /\ tasks' = [tasks EXCEPT ![t] =
            [@ EXCEPT !.pc = "raised", !.pc_raised = TRUE, !.ctx_events = NoList,
                      !.ctx0 = <<>>, !.out = Append(@, AgentGenerationComplete)]]
    /\ heap' = Collect(heap, conversation_events, tasks')
    /\ UNCHANGED <<conversation_events, max_context_length, next_task, cleared_events,
                   n_adds, n_clears, add_log, queued_triggers>>
    /\ UNCHANGED restOfNode

\* process_context raises (lines 120-125): the `async for` has no handler
\* around it, so the exception leaves generate for its caller; nothing is
\* yielded and the frame (ctx) is dropped.
GenRaise(t) ==
    /\ tasks[t].pc = "awaiting"
    /\ tasks' = [tasks EXCEPT ![t] =
            [@ EXCEPT !.pc = "raised", !.pc_raised = TRUE, !.ctx_events = NoList,
                      !.ctx0 = <<>>]]
    /\ heap' = Collect(heap, conversation_events, tasks')
    /\ UNCHANGED <<conversation_events, max_context_length, next_task, cleared_events,
                   n_adds, n_clears, add_log, queued_triggers>>
    /\ UNCHANGED restOfNode

GenerateSteps ==
    \E t \in TaskIds :
        \/ GenStart(t)
        \/ \E chunk \in Chunks : GenChunk(t, chunk)
        \/ GenResume(t)
        \/ GenComplete(t)
        \/ GenFinish(t)

\* --------------------------------------- the example wiring (Bridge rules)
\* bridge.on(UserTranscriptionReceived).map(node.add_event): the handler is
\* called with the bus Message, at once, whatever the stream rule is doing.
UserTranscriptionReceivedRule(ev) ==
    AddEventCall(Message(ev))

\* A UserStoppedSpeaking event arrives for the stream rule: it waits until the
\* rule is idle (spec 4.2: overlapping triggers queue behind the running task).
UserStoppedSpeakingArrives ==
    /\ next_task + queued_triggers <= MaxTasks
    /\ queued_triggers' = queued_triggers + 1
    /\ UNCHANGED <<heap, conversation_events, max_context_length, tasks, next_task,
                   cleared_events, n_adds, n_clears, add_log>>
    /\ UNCHANGED restOfNode

\* Whether the stream rule may start a task.
RuleIdle == \A t \in TaskIds : ~Active(t)

\* A stream rule that starts a task for every trigger, idle or not.
StartStreamOverlapping ==
    /\ queued_triggers > 0
    /\ queued_triggers' = queued_triggers - 1
    /\ NewGenerator
    /\ UNCHANGED <<heap, conversation_events, max_context_length, cleared_events,
                   n_adds, n_clears, add_log>>
    /\ UNCHANGED restOfNode

\* .stream(node.generate): the rule is idle and a trigger waits; the stream
\* task is created with a new generator.
StartStream ==
    /\ queued_triggers > 0
    /\ RuleIdle
    /\ queued_triggers' = queued_triggers - 1
    /\ NewGenerator
    /\ UNCHANGED <<heap, conversation_events, max_context_length, cleared_events,
                   n_adds, n_clears, add_log>>
    /\ UNCHANGED restOfNode

\* What the interrupt does to the running task t: it is cancelled at its
\* suspension point (its frame is dropped, nothing of it runs again) and
\* node.on_interrupt_generate is called with the interrupting message.
CancelAndHandle(t) ==
    /\ tasks' = [tasks EXCEPT ![t] =
            [@ EXCEPT !.pc = "cancelled", !.ctx_events = NoList, !.ctx0 = <<>>,
                      !.interrupts = @ + 1]]
    /\ heap' = Collect(heap, conversation_events, tasks')

\* .interrupt_on(UserStartedSpeaking, handler=node.on_interrupt_generate).
UserStartedSpeakingRule(t) ==
    /\ Active(t)
    /\ CancelAndHandle(t)
    /\ UNCHANGED <<conversation_events, max_context_length, next_task, cleared_events,
                   n_adds, n_clears, add_log, queued_triggers>>
    /\ UNCHANGED restOfNode

\* The call of the example: events arrive in any order, tasks run in any
\* interleaving that their suspension points allow.
Next ==
    \/ \E ev \in Transcripts : UserTranscriptionReceivedRule(ev)
    \/ UserStoppedSpeakingArrives
    \/ StartStream
    \/ \E t \in TaskIds : UserStartedSpeakingRule(t)
    \/ GenerateSteps

Spec == Init /\ [][Next]_vars

\* The same call a little later: the map rule has stored the first
\* transcription of the call (main.py 33), and the events are counted from
\* there on.
InitWiring ==
    /\ heap = [i \in ListIds |->
                  IF i = 1 THEN <<UserTranscriptionReceived(<<"a">>)>> ELSE <<>>]
    /\ conversation_events = 1
    /\ max_context_length = 2
    /\ tasks = [t \in TaskIds |-> NoTask]
    /\ next_task = 1
    /\ cleared_events = <<>>
    /\ n_adds = 0
    /\ n_clears = 0
    /\ add_log = <<UserTranscriptionReceived(<<"a">>)>>
    /\ queued_triggers = 0
    /\ InitBus /\ InitHarness /\ InitEndpoint /\ InitRegistry /\ InitCallState
    /\ InitContext

SpecWiring == InitWiring /\ [][Next]_vars

\* --------------------------------------------- the node driven by its caller
\* A caller of the node's own methods: add_event with any event, clear_context,
\* and generate iterated step by step, one generator at a time.
GenerateCall ==
    /\ RuleIdle
    /\ NewGenerator
    /\ UNCHANGED <<heap, conversation_events, max_context_length, cleared_events,
                   n_adds, n_clears, add_log, queued_triggers>>
    /\ UNCHANGED restOfNode

NextNode ==
    \/ \E ev \in DirectEvents : AddEventCall(ev)
    \/ ClearContextCall
    \/ GenerateCall
    \/ GenerateSteps

SpecNode == Init /\ [][NextNode]_vars

\* The same caller with a process_context that may raise.
NextNodeRaising ==
    \/ \E ev \in DirectEvents : AddEventCall(ev)
    \/ GenerateCall
    \/ GenerateSteps
    \/ \E t \in TaskIds : GenRaise(t)

SpecNodeRaising == Init /\ [][NextNodeRaising]_vars

\* ------------------------------------------------------------------ the Bus
\* The subscribers registered now.
Registered == {subscriptions[i].sub : i \in 1 .. Len(subscriptions)}

\* subscribe(eventType, handler): the subscriber is registered after the ones
\* already there; `since` is the number of messages published before.
Subscribe(s) ==
    /\ s \notin Registered
    /\ subscriptions' = Append(subscriptions, [sub |-> s, since |-> Len(published)])
    /\ UNCHANGED <<published, inbox>>
    /\ UNCHANGED restOfBus

\* unsubscribe: the subscriber's registration is removed.
Unsubscribe(s) ==
    /\ s \in Registered
    /\ subscriptions' = SelectSeq(subscriptions, LAMBDA r : r.sub # s)
    /\ UNCHANGED <<published, inbox>>
    /\ UNCHANGED restOfBus

\* A handler that puts what it receives in front of what it received before.
Receive_newest_first(box, msg) == <<msg>> \o box

\* The handler of a subscriber is invoked with a message.
Receive(box, msg) == Append(box, msg)

\* The message is handed to the matching subscribers of subs, first to last.
RECURSIVE Deliver(_, _, _)
Deliver(boxes, subs, msg) ==
    IF subs = <<>>
    THEN boxes
    ELSE LET s == subs[1].sub
             after == IF Filter[s] = msg.type
                      THEN [boxes EXCEPT ![s] = Receive(@, msg)]
                      ELSE boxes
         IN  Deliver(after, Tail(subs), msg)

\* publish(event): the event gets the next sequence number and is delivered to
\* every registered subscriber whose filter matches, in registration order.
Publish(type) ==
    /\ Len(published) < MaxPublish
    /\ LET msg == [seq |-> Len(published) + 1, type |-> type]
       IN  /\ published' = Append(published, msg)
           /\ inbox' = Deliver(inbox, subscriptions, msg)
    /\ UNCHANGED subscriptions
    /\ UNCHANGED restOfBus

NextBus ==
    \/ \E s \in Subscribers : Subscribe(s)
    \/ \E s \in Subscribers : Unsubscribe(s)
    \/ \E type \in BusEventTypes : Publish(type)

SpecBus == Init /\ [][NextBus]_vars

\* ------------------------------------------- the harness: inbound messages
\* harness_types.py 12-45: the variants of InputMessage.
TranscriptionInput(c) == [type |-> "message", content |-> c]
DTMFInput(b) == [type |-> "dtmf", button |-> b]
UserStateInput(v) == [type |-> "user_state", value |-> v]
AgentStateInput(v) == [type |-> "agent_state", value |-> v]
ValidationErrorInput(m, t) == [type |-> "validation_error", error_message |-> m, error_type |-> t]
AgentSpeechInput(c) == [type |-> "agent_speech", content |-> c]
CustomInput(md) == [type |-> "custom", metadata |-> md]

\* harness.py 46-50: the two state values the harness knows.
SPEAKING == "speaking"
IDLE == "idle"

\* The state values a user_state or agent_state message carries in the model:
\* value is any str, so one value outside State is included.
StateValues == {SPEAKING, IDLE, "away"}

\* The messages that pass validation, as the transport delivers them.
InputMessages ==
    {TranscriptionInput(c) : c \in {"hi", "yo"}}
        \cup {DTMFInput("1"), ValidationErrorInput("bad", "schema"),
              AgentSpeechInput("s"), CustomInput("md")}
        \cup {UserStateInput(v) : v \in StateValues}
        \cup {AgentStateInput(v) : v \in StateValues}

\* events.py 157-207: the events map_to_events makes.
AgentStartedSpeaking == [kind |-> "AgentStartedSpeaking"]
AgentStoppedSpeaking == [kind |-> "AgentStoppedSpeaking"]
UserStartedSpeaking == [kind |-> "UserStartedSpeaking"]
UserStoppedSpeaking == [kind |-> "UserStoppedSpeaking"]
UserUnknownInputReceived(d) == [kind |-> "UserUnknownInputReceived", input_data |-> d]
CustomReceived(md) == [kind |-> "CustomReceived", metadata |-> md]
DTMFInputEvent(b) == [kind |-> "DTMFInputEvent", button |-> b]

\* message.model_dump_json(): the JSON text of the message, which names its
\* type and every field.
model_dump_json(message) == [json |-> message]

\* map_to_events with the unknown-type arm answering every message.
map_to_events_all_unknown(message) ==
    <<UserUnknownInputReceived(model_dump_json(message))>>

\* map_to_events with the two speaking arms swapped between user and agent.
map_to_events_swapped(message) ==
    IF message.type = "user_state" /\ message.value = SPEAKING THEN <<AgentStartedSpeaking>>
    ELSE IF message.type = "agent_state" /\ message.value = SPEAKING THEN <<UserStartedSpeaking>>
    ELSE IF message.type = "message" THEN <<UserTranscriptionReceived(message.content)>>
    ELSE <<UserUnknownInputReceived(model_dump_json(message))>>

\* harness.py 249-282. A user_state or agent_state whose value is neither
\* speaking nor idle leaves the if chain without returning and reaches the
\* final `return []`.
map_to_events(message) ==
    IF message.type = "user_state" THEN
        IF message.value = SPEAKING THEN <<UserStartedSpeaking>>
        ELSE IF message.value = IDLE THEN <<UserStoppedSpeaking>>
        ELSE <<>>
    ELSE IF message.type = "message" THEN
        <<UserTranscriptionReceived(message.content)>>
    ELSE IF message.type = "agent_state" THEN
        IF message.value = SPEAKING THEN <<AgentStartedSpeaking>>
        ELSE IF message.value = IDLE THEN <<AgentStoppedSpeaking>>
        ELSE <<>>
    ELSE IF message.type = "agent_speech" THEN
        <<AgentSpeechSent(message.content)>>
    ELSE IF message.type = "dtmf" THEN
        <<DTMFInputEvent(message.button)>>
    ELSE IF message.type = "custom" THEN
        <<CustomReceived(message.metadata)>>
    ELSE
        <<UserUnknownInputReceived(model_dump_json(message))>>

\* --------------------------------------------- the harness: the read loop
\* What set shutdown_event: a disconnect seen by the read loop, cleanup(), a
\* failed send_json (id: the _send call) or the end of a transfer's sleep (id:
\* the transfer's _send call).
Cause(why, id) == [why |-> why, id |-> id]

\* The task of _input_processor is suspended at its creation ("created"), in
\* receive_json ("receiving") or in asyncio.sleep(0.1) ("sleeping"); between
\* two of these it runs without interruption.
ReaderSuspended == {"created", "receiving", "sleeping"}

\* A cancelled task takes no step but the one that ends it.
ReaderMayRun == cleanup_pc # "awaiting"

\* A loop whose condition does not look at the flag.
LoopTopIgnoresFlag(flag) == "receiving"

\* harness.py 104: the loop's condition, evaluated with the flag as it now is.
LoopTop(flag) == IF flag THEN "done" ELSE "receiving"

\* What one receive_json call gave: a validated message or what was raised.
Received(m) == [ok |-> TRUE, msg |-> m]
Raised(e) == [ok |-> FALSE, msg |-> [type |-> e]]

\* The messages of a receive log that were decoded, in order.
RECURSIVE Decoded(_)
Decoded(log) ==
    IF log = <<>> THEN <<>>
    ELSE IF Head(log).ok THEN <<Head(log).msg>> \o Decoded(Tail(log))
    ELSE Decoded(Tail(log))

\* harness.py 83-97.
\* start() without the is_running test: a task is created on every call, and
\* the task self.input_task named goes on running if it was alive.
StartStepAlways ==
    /\ is_running' = TRUE
    /\ input_task' = "created"
    /\ orphan_tasks' = orphan_tasks + (IF input_task \in ReaderSuspended THEN 1 ELSE 0)

\* harness.py 87-95: return when is_running, else set it and create the task.
StartStep ==
    IF is_running
      THEN UNCHANGED <<is_running, input_task, orphan_tasks>>
      ELSE /\ is_running' = TRUE
           /\ input_task' = "created"
           /\ orphan_tasks' =
                  orphan_tasks + (IF input_task \in ReaderSuspended THEN 1 ELSE 0)

Start ==
    /\ cleanup_pc # "awaiting"
    /\ StartStep
    /\ cleanup_pc' = "idle"
    /\ UNCHANGED <<shutdown_event, causes, input_queue, ws_connected,
                   rx_log, enq_log, got_log, dispatched>>
    /\ UNCHANGED <<outboundVars, restOfHarness>>

\* harness.py 103-104: the task's first step.
ReaderRun ==
    /\ input_task = "created"
    /\ ReaderMayRun
    /\ input_task' = LoopTop(shutdown_event)
    /\ UNCHANGED <<shutdown_event, causes, is_running, input_queue, ws_connected,
                   cleanup_pc, rx_log, enq_log, got_log, dispatched>>
    /\ UNCHANGED <<orphan_tasks, outboundVars, restOfHarness>>

\* The read loop that stops after the message it has just enqueued.
RecvMessageStepStops(m) ==
    /\ input_queue' = Append(input_queue, m)
    /\ enq_log' = Append(enq_log, m)
    /\ input_task' = "done"

\* The read loop over a queue of maxsize 1: put() waits while the queue is
\* full.
RecvMessageStepBounded(m) ==
    IF Len(input_queue) >= 1
      THEN /\ UNCHANGED <<input_queue, enq_log>>
           /\ input_task' = "putting"
      ELSE /\ input_queue' = Append(input_queue, m)
           /\ enq_log' = Append(enq_log, m)
           /\ input_task' = LoopTop(shutdown_event)

\* The read loop that puts the newest message at the head of the queue.
RecvMessageStepAtHead(m) ==
    /\ input_queue' = <<m>> \o input_queue
    /\ enq_log' = Append(enq_log, m)
    /\ input_task' = LoopTop(shutdown_event)

\* harness.py 107-110 and back to 104: put() on an unbounded queue does not
\* wait.
RecvMessageStep(m) ==
    /\ input_queue' = Append(input_queue, m)
    /\ enq_log' = Append(enq_log, m)
    /\ input_task' = LoopTop(shutdown_event)

RecvMessage(m) ==
    /\ input_task = "receiving"
    /\ ReaderMayRun
    /\ ws_connected
    /\ Len(rx_log) < MaxRecv
    /\ rx_log' = Append(rx_log, Received(m))
    /\ RecvMessageStep(m)
    /\ UNCHANGED <<shutdown_event, causes, is_running, ws_connected, cleanup_pc,
                   got_log, dispatched>>
    /\ UNCHANGED <<orphan_tasks, outboundVars, restOfHarness>>

\* A decode failure that ends the read loop and sets the flag.
RecvBadJsonStepFatal == "done"

\* harness.py 116-118: continue.
RecvBadJsonStep == LoopTop(shutdown_event)

RecvBadJson ==
    /\ input_task = "receiving"
    /\ ReaderMayRun
    /\ ws_connected
    /\ Len(rx_log) < MaxRecv
    /\ rx_log' = Append(rx_log, Raised("JSONDecodeError"))
    /\ input_task' = RecvBadJsonStep
    /\ UNCHANGED <<shutdown_event, causes, is_running, input_queue, ws_connected,
                   cleanup_pc, enq_log, got_log, dispatched>>
    /\ UNCHANGED <<orphan_tasks, outboundVars, restOfHarness>>

\* What receive_json or validate_python raises into `except Exception`.
OtherErrors == {"ValidationError", "RuntimeError"}

\* harness.py 119-122: log, and sleep unless the flag is set.
RecvRaises(e) ==
    /\ input_task = "receiving"
    /\ ReaderMayRun
    /\ Len(rx_log) < MaxRecv
    /\ rx_log' = Append(rx_log, Raised(e))
    /\ input_task' = IF shutdown_event THEN LoopTop(shutdown_event) ELSE "sleeping"
    /\ UNCHANGED <<shutdown_event, causes, is_running, input_queue, ws_connected,
                   cleanup_pc, enq_log, got_log, dispatched>>
    /\ UNCHANGED <<orphan_tasks, outboundVars, restOfHarness>>

\* harness.py 122 and back to 104.
ReaderWake ==
    /\ input_task = "sleeping"
    /\ ReaderMayRun
    /\ input_task' = LoopTop(shutdown_event)
    /\ UNCHANGED <<shutdown_event, causes, is_running, input_queue, ws_connected,
                   cleanup_pc, rx_log, enq_log, got_log, dispatched>>
    /\ UNCHANGED <<orphan_tasks, outboundVars, restOfHarness>>

\* The disconnect handler that leaves the flag alone.
RecvDisconnectStepNoFlag ==
    /\ UNCHANGED <<shutdown_event, causes>>
    /\ input_task' = "done"

\* harness.py 112-115: set the flag and break.
RecvDisconnectStep ==
    /\ shutdown_event' = TRUE
    /\ causes' = causes \cup {Cause("disconnect", 0)}
    /\ input_task' = "done"

\* The transport disconnects while the read loop is in receive_json.
RecvDisconnect ==
    /\ input_task = "receiving"
    /\ ReaderMayRun
    /\ ws_connected
    /\ ws_connected' = FALSE
    /\ RecvDisconnectStep
    /\ UNCHANGED <<is_running, input_queue, cleanup_pc, rx_log, enq_log,
                   got_log, dispatched>>
    /\ UNCHANGED <<orphan_tasks, outboundVars, restOfHarness>>

\* harness.py 129-131, and the consumer's map_to_events on what it got.
Get ==
    /\ input_queue # <<>>
    /\ input_queue' = Tail(input_queue)
    /\ got_log' = Append(got_log, Head(input_queue))
    /\ dispatched' = dispatched \o map_to_events(Head(input_queue))
    /\ UNCHANGED <<shutdown_event, causes, is_running, input_task, ws_connected,
                   cleanup_pc, rx_log, enq_log>>
    /\ UNCHANGED <<orphan_tasks, outboundVars, restOfHarness>>

\* cleanup's last part leaving the queue as it is.
DrainQueueKeeps(q) == q

\* harness.py 240-245: get_nowait until the queue is empty.
DrainQueue(q) == <<>>

\* cleanup that cancels and awaits self.input_task whether or not it has ended.
CleanupBeginStepAlwaysAwaits ==
    /\ cleanup_pc # "awaiting"
    /\ shutdown_event' = TRUE
    /\ causes' = causes \cup {Cause("cleanup", 0)}
    /\ is_running' = FALSE
    /\ cleanup_pc' = "awaiting"
    /\ UNCHANGED input_queue

\* cleanup that clears the flag, as if to make the harness ready for use again.
CleanupBeginStepRearms ==
    /\ cleanup_pc # "awaiting"
    /\ shutdown_event' = FALSE
    /\ causes' = causes \cup {Cause("cleanup", 0)}
    /\ is_running' = FALSE
    /\ IF input_task \in ReaderSuspended
          THEN /\ cleanup_pc' = "awaiting"
               /\ UNCHANGED input_queue
          ELSE /\ cleanup_pc' = "done"
               /\ input_queue' = DrainQueue(input_queue)

\* harness.py 226-237 when the read task is still running: set the flag, clear
\* is_running, cancel the task and wait for it; otherwise straight to the
\* drain.
CleanupBeginStep ==
    /\ cleanup_pc # "awaiting"
    /\ shutdown_event' = TRUE
    /\ causes' = causes \cup {Cause("cleanup", 0)}
    /\ is_running' = FALSE
    /\ IF input_task \in ReaderSuspended
          THEN /\ cleanup_pc' = "awaiting"
               /\ UNCHANGED input_queue
          ELSE /\ cleanup_pc' = "done"
               /\ input_queue' = DrainQueue(input_queue)

CleanupBegin ==
    /\ CleanupBeginStep
    /\ UNCHANGED <<input_task, ws_connected, rx_log, enq_log, got_log, dispatched>>
    /\ UNCHANGED <<orphan_tasks, outboundVars, restOfHarness>>

\* harness.py 124-125: the cancelled task catches CancelledError and ends.
ReaderCancelled ==
    /\ cleanup_pc = "awaiting"
    /\ input_task \in ReaderSuspended
    /\ input_task' = "done"
    /\ UNCHANGED <<shutdown_event, causes, is_running, input_queue, ws_connected,
                   cleanup_pc, rx_log, enq_log, got_log, dispatched>>
    /\ UNCHANGED <<orphan_tasks, outboundVars, restOfHarness>>

\* harness.py 234-247: the awaited task has ended; drain the queue.
CleanupFinish ==
    /\ cleanup_pc = "awaiting"
    /\ input_task = "done"
    /\ cleanup_pc' = "done"
    /\ input_queue' = DrainQueue(input_queue)
    /\ UNCHANGED <<shutdown_event, causes, is_running, input_task, ws_connected,
                   rx_log, enq_log, got_log, dispatched>>
    /\ UNCHANGED <<orphan_tasks, outboundVars, restOfHarness>>

NextHarness ==
    \/ Start
    \/ ReaderRun
    \/ \E m \in InputMessages : RecvMessage(m)
    \/ RecvBadJson
    \/ \E e \in OtherErrors : RecvRaises(e)
    \/ ReaderWake
    \/ RecvDisconnect
    \/ Get
    \/ CleanupBegin
    \/ ReaderCancelled
    \/ CleanupFinish

SpecHarness == InitCall /\ [][NextHarness]_vars

\* harness.py 119-122 again, for a transport whose receive_json goes on
\* raising: the failures are neither counted against MaxRecv nor logged, so
\* that the loop can be followed for as long as it runs.
RecvFails(e) ==
    /\ input_task = "receiving"
    /\ ReaderMayRun
    /\ input_task' = IF shutdown_event THEN LoopTop(shutdown_event) ELSE "sleeping"
    /\ UNCHANGED <<shutdown_event, causes, is_running, input_queue, ws_connected,
                   cleanup_pc, rx_log, enq_log, got_log, dispatched>>
    /\ UNCHANGED <<orphan_tasks, outboundVars, restOfHarness>>

NextReadLoop ==
    \/ Start
    \/ ReaderRun
    \/ \E m \in InputMessages : RecvMessage(m)
    \/ \E e \in OtherErrors : RecvFails(e)
    \/ ReaderWake
    \/ RecvDisconnect
    \/ Get
    \/ CleanupBegin
    \/ ReaderCancelled
    \/ CleanupFinish

\* The event loop runs the read loop's task when it can run and ends its
\* sleep; what the transport and the harness's caller do is up to them.
SpecReadLoop ==
    /\ InitCall
    /\ [][NextReadLoop]_vars
    /\ WF_vars(ReaderRun)
    /\ WF_vars(ReaderWake)

\* ------------------------------------------- the harness: outbound messages
\* harness_types.py 62-116: the type of the message each send operation makes
\* (end_call, transfer_call, send_message, send_error, send_tool_call,
\* log_event, log_metric, send_dtmf).
OutKinds ==
    {"end_call", "transfer", "message", "error", "tool_call", "log_event",
     "log_metric", "dtmf"}

\* The timeout_s values transfer_call is given.
Timeouts == {0, 1}

\* The callers are alike: a caller enters an operation only when those named
\* before it are in one.
Earlier(d, c) == d = "c1" /\ c = "c2"

\* _send without its check of the flag.
send_always(flag) == TRUE

\* harness.py 135: send_json is called only when the flag is not set.
send_starts(flag) == ~flag

\* harness.py 141-219: what an operation does once its _send has returned.
\* transfer_call goes to sleep for timeout_s; every other operation returns.
AfterSend(call) ==
    IF call.op = "transfer"
      THEN [call EXCEPT !.pc = "sleeping", !.sleep_until = now + call.T]
      ELSE NoCall

\* A caller enters one of the send operations, which calls _send: harness.py
\* 133-135. The time is that of the call; send_json takes less than one unit
\* of it.
SendStep(c, op, T) ==
    /\ calls[c].pc = "idle"
    /\ LET id == Len(tx_log) + 1
           starts == send_starts(shutdown_event)
           call == [pc |-> "sending", op |-> op, id |-> id, t0 |-> now, T |-> T,
                    sleep_until |-> 0]
       IN  /\ tx_log' = Append(tx_log, [kind |-> op, started |-> starts])
           /\ calls' = [calls EXCEPT ![c] = IF starts THEN call ELSE AfterSend(call)]

Call(c, op, T) ==
    /\ \A d \in Callers : Earlier(d, c) => calls[d].pc # "idle"
    /\ Len(tx_log) < MaxSends
    /\ SendStep(c, op, T)
    /\ UNCHANGED <<shutdown_event, causes, sent, now>>
    /\ UNCHANGED <<inboundVars, restOfHarness>>

\* harness.py 136: send_json returns.
SendDone(c) ==
    /\ calls[c].pc = "sending"
    /\ ws_connected
    /\ sent' = Append(sent, calls[c].id)
    /\ calls' = [calls EXCEPT ![c] = AfterSend(calls[c])]
    /\ UNCHANGED <<shutdown_event, causes, tx_log, now>>
    /\ UNCHANGED <<inboundVars, restOfHarness>>

\* _send without its handler: what send_json raises leaves _send and the
\* operation that called it.
SendFailsPropagates(c) ==
    /\ calls[c].pc = "sending"
    /\ calls' = [calls EXCEPT ![c] = [@ EXCEPT !.pc = "raised"]]
    /\ UNCHANGED <<shutdown_event, causes, tx_log, sent, now>>
    /\ UNCHANGED <<inboundVars, restOfHarness>>

\* harness.py 137-139: send_json raises; the flag is set and _send returns.
SendFails(c) ==
    /\ calls[c].pc = "sending"
    /\ shutdown_event' = TRUE
    /\ causes' = causes \cup {Cause("send_failure", calls[c].id)}
    /\ calls' = [calls EXCEPT ![c] = AfterSend(calls[c])]
    /\ UNCHANGED <<tx_log, sent, now>>
    /\ UNCHANGED <<inboundVars, restOfHarness>>

\* transfer_call that returns from its sleep without setting the flag.
TransferTimeoutNoFlag(c) ==
    /\ calls[c].pc = "sleeping"
    /\ now >= calls[c].sleep_until
    /\ calls' = [calls EXCEPT ![c] = NoCall]
    /\ UNCHANGED <<shutdown_event, causes, tx_log, sent, now>>
    /\ UNCHANGED <<inboundVars, restOfHarness>>

\* transfer_call that sets the flag as soon as it goes to sleep.
TransferTimeoutEarly(c) ==
    /\ calls[c].pc = "sleeping"
    /\ shutdown_event' = TRUE
    /\ causes' = causes \cup {Cause("transfer_timeout", calls[c].id)}
    /\ calls' = [calls EXCEPT ![c] = NoCall]
    /\ UNCHANGED <<tx_log, sent, now>>
    /\ UNCHANGED <<inboundVars, restOfHarness>>

\* harness.py 160-162: the sleep is over; set the flag.
TransferTimeout(c) ==
    /\ calls[c].pc = "sleeping"
    /\ now >= calls[c].sleep_until
    /\ shutdown_event' = TRUE
    /\ causes' = causes \cup {Cause("transfer_timeout", calls[c].id)}
    /\ calls' = [calls EXCEPT ![c] = NoCall]
    /\ UNCHANGED <<tx_log, sent, now>>
    /\ UNCHANGED <<inboundVars, restOfHarness>>

\* One unit of time passes. A sleeper whose time has come and a send_json
\* under way run before the clock moves on.
Tick ==
    /\ now < MaxTime
    /\ \A c \in Callers :
          /\ calls[c].pc # "sending"
          /\ calls[c].pc = "sleeping" => now < calls[c].sleep_until
    /\ now' = now + 1
    /\ UNCHANGED <<shutdown_event, causes, calls, tx_log, sent>>
    /\ UNCHANGED <<inboundVars, restOfHarness>>

\* The send operations, with the other things that set the flag: a disconnect
\* seen by the read loop, and cleanup().
NextSend ==
    \/ \E c \in Callers, op \in OutKinds :
          \E T \in IF op = "transfer" THEN Timeouts ELSE {0} : Call(c, op, T)
    \/ \E c \in Callers : SendDone(c)
    \/ \E c \in Callers : SendFails(c)
    \/ \E c \in Callers : TransferTimeout(c)
    \/ Tick
    \/ Start
    \/ ReaderRun
    \/ RecvDisconnect
    \/ CleanupBegin
    \/ ReaderCancelled
    \/ CleanupFinish

SpecSend == InitCall /\ [][NextSend]_vars

\* The messages that arrive in the runs below.
ShutdownMessages == {UserStateInput(SPEAKING), UserStateInput(IDLE)}

\* One caller of every kind of harness operation next to the read loop:
\* start, get, send_message, end_call, transfer_call (with no wait) and
\* cleanup.
NextShutdown ==
    \/ Start
    \/ ReaderRun
    \/ \E m \in ShutdownMessages : RecvMessage(m)
    \/ RecvBadJson
    \/ \E e \in OtherErrors : RecvRaises(e)
    \/ ReaderWake
    \/ RecvDisconnect
    \/ Get
    \/ \E op \in {"message", "end_call", "transfer"} : Call("c1", op, 0)
    \/ SendDone("c1")
    \/ SendFails("c1")
    \/ TransferTimeout("c1")
    \/ CleanupBegin
    \/ ReaderCancelled
    \/ CleanupFinish

SpecShutdown == InitCall /\ [][NextShutdown]_vars

\* ------------------------------------------------- the websocket endpoint
\* The task that runs websocket_endpoint, and the call handler in it, and a
\* task the handler started (a bridge).
EndpointTask == "c1"
BridgeTask == "c2"

\* How the call handler ends: it returns, or WebSocketDisconnect or another
\* exception comes out of it.
HandlerExits == {"return", "disconnect", "exception"}

\* The send operations the handler and its tasks use in the model.
HandlerSends == OutKinds \ {"transfer"}

\* The endpoint whose disconnect handler leaves without cleanup.
AfterHandlerNoFinally(how) ==
    IF how = "exception" THEN "send_error"
    ELSE IF how = "disconnect" THEN "closed"
    ELSE "cleanup"

\* voice_agent_app.py 147-158: where the endpoint goes when the handler ends.
AfterHandler(how) == IF how = "exception" THEN "send_error" ELSE "cleanup"

\* The handler starts the system, which starts the harness.
HandlerStarts ==
    /\ endpoint_pc = "handler"
    /\ ~is_running
    /\ is_running' = TRUE
    /\ input_task' = "created"
    /\ cleanup_pc' = "idle"
    /\ UNCHANGED <<shutdown_event, causes, input_queue, ws_connected,
                   rx_log, enq_log, got_log, dispatched>>
    /\ UNCHANGED <<orphan_tasks, outboundVars, endpointVars, restOfEndpoint>>

\* The handler, or a task it started, calls a send operation.
HandlerSend(c, op) ==
    /\ c = EndpointTask => endpoint_pc = "handler"
    /\ Len(tx_log) < MaxSends
    /\ SendStep(c, op, 0)
    /\ UNCHANGED <<shutdown_event, causes, sent, now>>
    /\ UNCHANGED <<inboundVars, endpointVars, restOfEndpoint>>

\* voice_agent_app.py 145-150: the handler ends.
HandlerEnds(how) ==
    /\ endpoint_pc = "handler"
    /\ calls[EndpointTask].pc = "idle"
    /\ handler_exit' = how
    /\ endpoint_pc' = AfterHandler(how)
    /\ UNCHANGED ep_log
    /\ UNCHANGED <<harnessVars, restOfEndpoint>>

\* voice_agent_app.py 153: send_error.
EndpointSendError ==
    /\ endpoint_pc = "send_error"
    /\ SendStep(EndpointTask, "error", 0)
    /\ ep_log' = Append(ep_log, [op |-> "send_error", id |-> Len(tx_log) + 1])
    /\ endpoint_pc' = "end_call"
    /\ UNCHANGED <<handler_exit, shutdown_event, causes, sent, now>>
    /\ UNCHANGED <<inboundVars, restOfEndpoint>>

\* voice_agent_app.py 154: end_call, once send_error has returned.
EndpointEndCall ==
    /\ endpoint_pc = "end_call"
    /\ SendStep(EndpointTask, "end_call", 0)
    /\ ep_log' = Append(ep_log, [op |-> "end_call", id |-> Len(tx_log) + 1])
    /\ endpoint_pc' = "cleanup"
    /\ UNCHANGED <<handler_exit, shutdown_event, causes, sent, now>>
    /\ UNCHANGED <<inboundVars, restOfEndpoint>>

\* system.cleanup(), which cleans the harness up.
SystemCleanupStep == CleanupBeginStep

\* voice_agent_app.py 157-158: the finally clause.
EndpointCleanup ==
    /\ endpoint_pc = "cleanup"
    /\ calls[EndpointTask].pc = "idle"
    /\ SystemCleanupStep
    /\ ep_log' = Append(ep_log, [op |-> "cleanup", id |-> 0])
    /\ endpoint_pc' = "cleaning"
    /\ UNCHANGED <<handler_exit, input_task, ws_connected, rx_log, enq_log, got_log,
                   dispatched>>
    /\ UNCHANGED <<orphan_tasks, outboundVars, restOfEndpoint>>

\* system.cleanup() has returned and the endpoint returns.
EndpointReturns ==
    /\ endpoint_pc = "cleaning"
    /\ cleanup_pc = "done"
    /\ endpoint_pc' = "closed"
    /\ UNCHANGED <<handler_exit, ep_log>>
    /\ UNCHANGED <<harnessVars, restOfEndpoint>>

NextEndpoint ==
    \/ HandlerStarts
    \/ \E c \in {EndpointTask, BridgeTask}, op \in HandlerSends : HandlerSend(c, op)
    \/ \E how \in HandlerExits : HandlerEnds(how)
    \/ EndpointSendError
    \/ EndpointEndCall
    \/ EndpointCleanup
    \/ EndpointReturns
    \/ \E c \in Callers : SendDone(c)
    \/ \E c \in Callers : SendFails(c)
    \/ ReaderRun
    \/ RecvDisconnect
    \/ ReaderCancelled
    \/ CleanupFinish

SpecEndpoint == InitCall /\ [][NextEndpoint]_vars

\* ------------------------------------------------ the event registry: calls
\* __new__ that makes a new instance on every call.
NewInstanceStepAlways ==
    LET i == Len(handles) + 1
    IN  /\ cls_instance' = i
        /\ registries' = [registries EXCEPT ![i] = EmptyDict]
        /\ handles' = Append(handles, i)

\* events.py 235-239: __new__ makes the instance, with an empty dict, only
\* when the class has none, and returns the instance of the class.
NewInstanceStep ==
    IF cls_instance = NoInstance
    THEN /\ cls_instance' = 1
         /\ registries' = [registries EXCEPT ![1] = EmptyDict]
         /\ handles' = Append(handles, 1)
    ELSE /\ cls_instance' = cls_instance
         /\ registries' = registries
         /\ handles' = Append(handles, cls_instance)

\* _EventsRegistry(): line 252, and every later call of the class.
NewInstance ==
    /\ Len(handles) < MaxHandles
    /\ NewInstanceStep
    /\ UNCHANGED <<reg_calls, last_register>>
    /\ UNCHANGED restOfRegistry

\* handle.register(alias, event_type), lines 241-246.
Register(h, alias, event_type) ==
    /\ reg_calls < MaxRegisters
    /\ h \in 1 .. Len(handles)
    /\ LET self == handles[h]
           r == register(registries[self], alias, event_type)
       IN  /\ registries' = [registries EXCEPT ![self] = r.events]
           /\ last_register' =
                  [handle |-> h, alias |-> alias, event_type |-> event_type,
                   raised |-> r.raised, before |-> registries[self]]
    /\ reg_calls' = reg_calls + 1
    /\ UNCHANGED <<cls_instance, handles>>
    /\ UNCHANGED restOfRegistry

NextRegistry ==
    \/ NewInstance
    \/ \E h \in InstanceIds, alias \in Aliases, event_type \in RegisteredTypes :
           Register(h, alias, event_type)

SpecRegistry == InitCall /\ [][NextRegistry]_vars

\* ------------------------------------------- the togetherai example's nodes
\* customer_service_node.py 91-146: the tools the model may call.
ToolNames == {"end_call", "search_knowledge_base", "create_ticket", "escalate_to_human"}

\* message.tool_calls of one response; <<>> is a response without tool calls.
ToolCallLists ==
    UNION {[1 .. n -> ToolNames] : n \in 0 .. MaxToolCalls}

\* len(context.events) of an invocation: none, too few for the escalation
\* analysis, enough.
ContextSizes == {0, 2, 3}

\* escalation_node.py 63: the analysis waits for this many events.
MinContext == 3

\* What the analysis comes to: the three levels of the schema, a reply that
\* does not parse but holds a keyword, no reply, an exception.
Analyses == {"LOW", "MEDIUM", "HIGH", "keyword", "none", "exception"}

\* The alerts the analysis yields (escalation_node.py 103-137).
Alerts(analysis) == IF analysis \in {"MEDIUM", "HIGH", "keyword"} THEN 1 ELSE 0

\* One ended invocation of EscalationNode.process_context.
Run(flag, events, yielded) ==
    [flag_at_entry |-> flag, events |-> events, yielded |-> yielded]

\* CustomerServiceNode.process_context is called (lines 59-79): it returns at
\* once on an empty context and awaits the model otherwise.
CSInvoke(events) ==
    /\ cs_node.pc = "idle"
    /\ events # 0
    /\ cs_node' = [cs_node EXCEPT !.pc = "awaiting"]
    /\ UNCHANGED <<call_state, esc_node, esc_runs, flag_writes>>
    /\ UNCHANGED restOfCallState

\* The model's response arrives (lines 81-84, 148-163): with tool calls the
\* loop over them begins; a plain response, an empty one and an exception end
\* the invocation.
CSResponse(tool_calls) ==
    /\ cs_node.pc = "awaiting"
    /\ cs_node' = IF tool_calls = <<>>
                  THEN [cs_node EXCEPT !.pc = "idle", !.tool_calls = <<>>]
                  ELSE [cs_node EXCEPT !.pc = "in_tools", !.tool_calls = tool_calls]
    /\ UNCHANGED <<call_state, esc_node, esc_runs, flag_writes>>
    /\ UNCHANGED restOfCallState

\* Line 89: the ToolResult of the next tool call is yielded.
CSToolResult ==
    /\ cs_node.pc = "in_tools"
    /\ cs_node' = [cs_node EXCEPT !.pc = "at_tool_result"]
    /\ UNCHANGED <<call_state, esc_node, esc_runs, flag_writes>>
    /\ UNCHANGED restOfCallState

\* Lines 91-146: the tool is run; escalate_to_human sets the flag (line 144).
CSToolRun ==
    /\ cs_node.pc = "at_tool_result"
    /\ IF Head(cs_node.tool_calls) = "escalate_to_human"
       THEN /\ call_state' = [call_state EXCEPT !.escalation_detected = TRUE]
            /\ flag_writes' = flag_writes \cup
                   {[by |-> "CustomerServiceNode",
                     from |-> call_state.escalation_detected, to |-> TRUE]}
       ELSE UNCHANGED <<call_state, flag_writes>>
    /\ cs_node' = [cs_node EXCEPT
                      !.pc = IF Tail(cs_node.tool_calls) = <<>> THEN "idle" ELSE "in_tools",
                      !.tool_calls = Tail(cs_node.tool_calls)]
    /\ UNCHANGED <<esc_node, esc_runs>>
    /\ UNCHANGED restOfCallState

\* EscalationNode.process_context that goes on to the analysis whatever the
\* flag says.
EscInvokeStepNoSkip(events) ==
    IF events < MinContext
    THEN /\ esc_runs' = Append(esc_runs, Run(call_state.escalation_detected, events, 0))
         /\ esc_node' = esc_node
    ELSE /\ esc_runs' = esc_runs
         /\ esc_node' = [pc |-> "awaiting",
                         flag_at_entry |-> call_state.escalation_detected,
                         events |-> events]

\* escalation_node.py 58-65: return when the flag is set, return when the
\* context holds fewer than three events, await the analysis otherwise.
EscInvokeStep(events) ==
    IF call_state.escalation_detected \/ events < MinContext
    THEN /\ esc_runs' = Append(esc_runs, Run(call_state.escalation_detected, events, 0))
         /\ esc_node' = esc_node
    ELSE /\ esc_runs' = esc_runs
         /\ esc_node' = [pc |-> "awaiting", flag_at_entry |-> FALSE, events |-> events]

EscInvoke(events) ==
    /\ esc_node.pc = "idle"
    /\ Len(esc_runs) < MaxRuns
    /\ EscInvokeStep(events)
    /\ UNCHANGED <<call_state, cs_node, flag_writes>>
    /\ UNCHANGED restOfCallState

\* escalation_node.py 67-163: the analysis arrives and its alerts are yielded.
EscResponse(analysis) ==
    /\ esc_node.pc = "awaiting"
    /\ esc_runs' = Append(esc_runs,
                          Run(esc_node.flag_at_entry, esc_node.events, Alerts(analysis)))
    /\ esc_node' = [esc_node EXCEPT !.pc = "idle"]
    /\ UNCHANGED <<call_state, cs_node, flag_writes>>
    /\ UNCHANGED restOfCallState

NextCallState ==
    \/ \E events \in ContextSizes : CSInvoke(events)
    \/ \E tool_calls \in ToolCallLists : CSResponse(tool_calls)
    \/ CSToolResult
    \/ CSToolRun
    \/ \E events \in ContextSizes : EscInvoke(events)
    \/ \E analysis \in Analyses : EscResponse(analysis)

SpecCallState == InitCall /\ [][NextCallState]_vars

\* ----------------------------- CustomerServiceNode inside ReasoningNode.generate
\* customer_service_node.py 157-162: the apology the handler yields.
Fallback == AgentResponse(<<"f">>)

\* The reply of the model when it calls no tool: a text, or nothing.
Replies == {"content", "empty"}

\* The code of process_context that is running raises and nothing catches it:
\* the exception leaves process_context and generate.
CSGenFailStepPropagates(t) ==
    /\ tasks' = [tasks EXCEPT ![t] =
            [@ EXCEPT !.pc = "raised", !.pc_raised = TRUE, !.ctx_events = NoList,
                      !.ctx0 = <<>>]]
    /\ heap' = Collect(heap, conversation_events, tasks')
    /\ UNCHANGED <<n_adds, add_log>>
    /\ cs_node' = [cs_node EXCEPT !.pc = "idle", !.failed = TRUE,
                                  !.before = ChunksOf(t)]

\* customer_service_node.py 155-162: `except Exception` logs and yields the
\* apology, which generate saves and yields; nothing follows it.
CSGenFailStep(t) ==
    /\ GenChunkStep(t, Fallback)
    /\ cs_node' = [cs_node EXCEPT !.pc = "ending", !.failed = TRUE,
                                  !.before = ChunksOf(t)]

\* generate calls process_context (reasoning.py 112-120), which goes to its
\* first await, the call of the model (customer_service_node.py 59-79).
CSGenStart(t) ==
    /\ tasks[t].pc = "created"
    /\ cs_node.pc = "idle"
    /\ GenStartStep(t)
    /\ cs_node' = IF Len(heap[conversation_events]) = 0
                  THEN cs_node
                  ELSE [pc |-> "awaiting", tool_calls |-> <<>>, task |-> t,
                        failed |-> FALSE, before |-> <<>>]
    /\ UNCHANGED <<conversation_events, max_context_length, next_task, cleared_events,
                   n_adds, n_clears, add_log, queued_triggers>>
    /\ UNCHANGED <<call_state, esc_node, esc_runs, flag_writes>>
    /\ UNCHANGED <<busVars, harnessVars, endpointVars, registryVars, contextVars>>

\* Lines 81-86: the reply holds tool calls and the loop over them begins.
CSGenTools(t, tool_calls) ==
    /\ tasks[t].pc = "awaiting"
    /\ cs_node.pc = "awaiting"
    /\ tool_calls # <<>>
    /\ cs_node' = [cs_node EXCEPT !.pc = "in_tools", !.tool_calls = tool_calls]
    /\ UNCHANGED <<call_state, esc_node, esc_runs, flag_writes>>
    /\ UNCHANGED restOfCallState

\* Lines 148-153: the reply holds no tool call; its text, if it has one, is
\* yielded.
CSGenReply(t, reply) ==
    /\ tasks[t].pc = "awaiting"
    /\ cs_node.pc = "awaiting"
    /\ IF reply = "content"
       THEN GenChunkStep(t, AgentResponse(<<"x">>))
       ELSE UNCHANGED <<tasks, heap, n_adds, add_log>>
    /\ cs_node' = [cs_node EXCEPT !.pc = "ending"]
    /\ UNCHANGED <<conversation_events, max_context_length, next_task, cleared_events,
                   n_clears, queued_triggers>>
    /\ UNCHANGED <<call_state, esc_node, esc_runs, flag_writes>>
    /\ UNCHANGED <<busVars, harnessVars, endpointVars, registryVars, contextVars>>

\* Line 89: the ToolResult of the next tool call is yielded.
CSGenToolResult(t) ==
    /\ tasks[t].pc = "awaiting"
    /\ cs_node.pc = "in_tools"
    /\ GenChunkStep(t, ToolResult(<<"t">>))
    /\ cs_node' = [cs_node EXCEPT !.pc = "at_tool_result"]
    /\ UNCHANGED <<conversation_events, max_context_length, next_task, cleared_events,
                   n_clears, queued_triggers>>
    /\ UNCHANGED <<call_state, esc_node, esc_runs, flag_writes>>
    /\ UNCHANGED <<busVars, harnessVars, endpointVars, registryVars, contextVars>>

\* Lines 91-146: the tool is run and what it gives is yielded as an
\* AgentResponse; escalate_to_human sets the flag first (line 144).
CSGenToolRun(t) ==
    /\ tasks[t].pc = "awaiting"
    /\ cs_node.pc = "at_tool_result"
    /\ IF Head(cs_node.tool_calls) = "escalate_to_human"
       THEN /\ call_state' = [call_state EXCEPT !.escalation_detected = TRUE]
            /\ flag_writes' = flag_writes \cup
                   {[by |-> "CustomerServiceNode",
                     from |-> call_state.escalation_detected, to |-> TRUE]}
       ELSE UNCHANGED <<call_state, flag_writes>>
    /\ GenChunkStep(t, AgentResponse(<<"y">>))
    /\ cs_node' = [cs_node EXCEPT
                      !.pc = IF Tail(cs_node.tool_calls) = <<>> THEN "ending" ELSE "in_tools",
                      !.tool_calls = Tail(cs_node.tool_calls)]
    /\ UNCHANGED <<conversation_events, max_context_length, next_task, cleared_events,
                   n_clears, queued_triggers>>
    /\ UNCHANGED <<esc_node, esc_runs>>
    /\ UNCHANGED <<busVars, harnessVars, endpointVars, registryVars, contextVars>>

\* Something inside the try block raises: the call of the model, the parsing
\* of a tool call's arguments, a tool.
CSGenFails(t) ==
    /\ tasks[t].pc = "awaiting"
    /\ cs_node.pc \in {"awaiting", "in_tools", "at_tool_result"}
    /\ CSGenFailStep(t)
    /\ UNCHANGED <<conversation_events, max_context_length, next_task, cleared_events,
                   n_clears, queued_triggers>>
    /\ UNCHANGED <<call_state, esc_node, esc_runs, flag_writes>>
    /\ UNCHANGED <<busVars, harnessVars, endpointVars, registryVars, contextVars>>

\* process_context returns; generate yields AgentGenerationComplete
\* (reasoning.py 127).
CSGenEnd(t) ==
    /\ tasks[t].pc = "awaiting"
    /\ cs_node.pc = "ending"
    /\ GenCompleteStep(t)
    /\ cs_node' = [cs_node EXCEPT !.pc = "idle"]
    /\ UNCHANGED <<conversation_events, max_context_length, next_task, cleared_events,
                   n_adds, n_clears, add_log, queued_triggers>>
    /\ UNCHANGED <<call_state, esc_node, esc_runs, flag_writes>>
    /\ UNCHANGED <<busVars, harnessVars, endpointVars, registryVars, contextVars>>

NextCustomerService ==
    \/ \E ev \in DirectEvents : AddEventCall(ev)
    \/ GenerateCall
    \/ \E t \in TaskIds : CSGenStart(t)
    \/ \E t \in TaskIds, tool_calls \in ToolCallLists : CSGenTools(t, tool_calls)
    \/ \E t \in TaskIds, reply \in Replies : CSGenReply(t, reply)
    \/ \E t \in TaskIds : CSGenToolResult(t)
    \/ \E t \in TaskIds : CSGenToolRun(t)
    \/ \E t \in TaskIds : CSGenFails(t)
    \/ \E t \in TaskIds : GenResume(t)
    \/ \E t \in TaskIds : CSGenEnd(t)
    \/ \E t \in TaskIds : GenFinish(t)

SpecCustomerService == InitCall /\ [][NextCustomerService]_vars

\* ----------------------------------------------- ConversationContext: calls
\* A context is built with one more event (the dataclass field `events`).
ContextHolds(ev) ==
    /\ ~committed_turns.called
    /\ Len(context_events) < MaxContext
    /\ context_events' = Append(context_events, ev)
    /\ UNCHANGED committed_turns
    /\ UNCHANGED restOfContext

\* ctx.get_committed_transcript(): a new list is built and returned;
\* self.events is only read.
GetCommittedTranscript ==
    /\ committed_turns' =
           [called |-> TRUE, turns |-> get_committed_transcript(context_events),
            events |-> context_events]
    /\ UNCHANGED context_events
    /\ UNCHANGED restOfContext

NextContext ==
    \/ \E ev \in ContextEvents : ContextHolds(ev)
    \/ GetCommittedTranscript

SpecContext == InitCall /\ [][NextContext]_vars

\* ------------------------------------------------------------- properties
\* The node's history, as a sequence.
History == heap[conversation_events]

MergeableKinds == {mergeable_events[i] : i \in 1 .. Len(mergeable_events)}

\* s is the end of w.
IsSuffix(s, w) == Len(s) <= Len(w) /\ SubSeq(w, Len(w) - Len(s) + 1, Len(w)) = s

\* s occurs in w as a contiguous piece.
Occurs(s, w) == \E i \in 0 .. (Len(w) - Len(s)) : SubSeq(w, i + 1, i + Len(s)) = s

\* The event is in the list, as an entry of its own or merged into one of its kind.
Reflected(ev, lst) ==
    \E j \in 1 .. Len(lst) : lst[j].kind = ev.kind /\ Occurs(ev.content, lst[j].content)

\* The contents of a sequence of events, concatenated in order.
RECURSIVE ConcatContents(_)
ConcatContents(evs) ==
    IF evs = <<>> THEN <<>> ELSE evs[1].content \o ConcatContents(Tail(evs))

\* Where the last run of same-kind events of a log starts.
RunStart(log) ==
    CHOOSE i \in 1 .. Len(log) :
        /\ \A j \in i .. Len(log) : log[j].kind = log[Len(log)].kind
        /\ \A k \in 1 .. (i - 1) : \E j \in k .. Len(log) : log[j].kind # log[Len(log)].kind

\* C3: after any sequence of add_event and clear_context calls (and of
\* generation steps, which call add_event), the history never holds two
\* adjacent events of the same mergeable kind.
C3_NoAdjacentSameMergeableKind ==
    \A i \in 1 .. (Len(History) - 1) :
        ~(History[i].kind = History[i + 1].kind /\ History[i].kind \in MergeableKinds)

\* C3's case: two events of one mergeable kind were added one after the other,
\* after a clear_context.
C3_Witness ==
    /\ n_clears > 0
    /\ Len(add_log) >= 2
    /\ add_log[Len(add_log)].kind = add_log[Len(add_log) - 1].kind
    /\ add_log[Len(add_log)].kind \in MergeableKinds

\* C4: when the events added last form a run of one mergeable kind (every
\* add_event call since the last event of another kind, or since the history
\* was empty), the history ends with exactly one entry of that kind, whose
\* content is the concatenation of the run's contents in the order added.
C4_RunMergedInOrder ==
    (add_log # <<>> /\ add_log[Len(add_log)].kind \in MergeableKinds) =>
        LET run == SubSeq(add_log, RunStart(add_log), Len(add_log))
            n == Len(History)
        IN  /\ n >= 1
            /\ History[n].kind = run[1].kind
            /\ History[n].content = ConcatContents(run)
            /\ n >= 2 => History[n - 1].kind # run[1].kind

\* C4's case: a run of two or more events with different contents.
C4_Witness ==
    /\ Len(add_log) >= 3
    /\ add_log[Len(add_log)].kind \in MergeableKinds
    /\ RunStart(add_log) = Len(add_log) - 1
    /\ add_log[Len(add_log)].content # add_log[Len(add_log) - 1].content

\* C6: generate on a node whose history is empty is a no-op: the step that
\* starts it ends it, nothing is yielded, process_context is not called and
\* the history is still empty; a generator that returned this way has yielded
\* nothing and holds no context.
C6_EmptyHistoryNoOp ==
    /\ [](\A t \in TaskIds :
            tasks[t].pc = "returned" =>
                /\ tasks[t].out = <<>>
                /\ ~tasks[t].pc_called
                /\ tasks[t].ctx_events = NoList)
    /\ [][\A t \in TaskIds :
            (/\ tasks[t].pc = "created"
             /\ tasks'[t].pc \notin {"created", "cancelled"}
             /\ History = <<>>) =>
                /\ tasks'[t].pc = "returned"
                /\ tasks'[t].out = <<>>
                /\ ~tasks'[t].pc_called
                /\ heap'[conversation_events'] = <<>>]_vars

\* C6's case: generate was called on an empty history and has returned.
C6_Witness == \E t \in TaskIds : tasks[t].pc = "returned" /\ History = <<>>

\* C7: every chunk is merged into the history before it is forwarded: the
\* step that yields a chunk leaves the history ending with an entry of the
\* chunk's kind whose content ends with the chunk's content, and (in the
\* example wiring) every chunk a caller has received is reflected in the
\* history at every later point.
C7_SavedBeforeYielded ==
    /\ [](\A t \in TaskIds : \A i \in 1 .. Len(tasks[t].out) :
            tasks[t].out[i] # AgentGenerationComplete => Reflected(tasks[t].out[i], History))
    /\ [][\A t \in TaskIds :
            (/\ Len(tasks'[t].out) > Len(tasks[t].out)
             /\ tasks'[t].out[Len(tasks'[t].out)] # AgentGenerationComplete) =>
                LET chunk == tasks'[t].out[Len(tasks'[t].out)]
                    h == heap'[conversation_events']
                IN  /\ h # <<>>
                    /\ h[Len(h)].kind = chunk.kind
                    /\ IsSuffix(chunk.content, h[Len(h)].content)]_vars

\* C7's case: a generation has yielded two chunks that were merged.
C7_Witness ==
    \E t \in TaskIds :
        /\ tasks[t].pc = "at_yield"
        /\ tasks[t].nchunks = 2
        /\ tasks[t].out[1].kind = tasks[t].out[2].kind
        /\ tasks[t].out[1].kind \in MergeableKinds

\* C8: once process_context's sequence has completed, generate has yielded
\* exactly one AgentGenerationComplete, after every chunk (also when there
\* was no chunk); before that it has yielded none; and the history never
\* holds an AgentGenerationComplete.
C8_OneCompletionLastNotStored ==
    /\ \A t \in TaskIds :
        LET out == tasks[t].out
            completions == {i \in 1 .. Len(out) : out[i] = AgentGenerationComplete}
        IN  /\ tasks[t].pc \in {"at_final", "done"} =>
                /\ Len(out) = tasks[t].nchunks + 1
                /\ completions = {Len(out)}
            /\ tasks[t].pc \in {"created", "awaiting", "at_yield", "returned"} =>
                completions = {}
    /\ \A i \in 1 .. Len(History) : History[i].kind # "AgentGenerationComplete"

\* C8's case: one generation completed without a chunk and one with chunks.
C8_Witness ==
    \E t, u \in TaskIds :
        /\ tasks[t].pc = "done" /\ tasks[t].nchunks = 0 /\ tasks[t].pc_called
        /\ tasks[u].pc = "done" /\ tasks[u].nchunks > 0

\* C1: when the declared interrupt arrives before a rule's stream has
\* completed, the interrupt handler has run exactly once for that task (and
\* never for a task that was not interrupted), the cancelled task never yields
\* or appends again (its record never changes), the interrupt itself leaves
\* the history as it was, and every chunk the task had yielded is reflected
\* in the history from then on.
C1_InterruptCancelsOnceKeepsHistory ==
    /\ [](\A t \in TaskIds :
            /\ tasks[t].pc = "cancelled" =>
                /\ tasks[t].interrupts = 1
                /\ \A i \in 1 .. Len(tasks[t].out) :
                       tasks[t].out[i] # AgentGenerationComplete =>
                           Reflected(tasks[t].out[i], History)
            /\ tasks[t].pc # "cancelled" => tasks[t].interrupts = 0)
    /\ [][\A t \in TaskIds :
            /\ tasks[t].pc = "cancelled" => tasks'[t] = tasks[t]
            /\ (tasks[t].pc # "cancelled" /\ tasks'[t].pc = "cancelled") =>
                   /\ Active(t)
                   /\ heap'[conversation_events'] = History
                   /\ tasks'[t].out = tasks[t].out]_vars

\* C1's case: a task was interrupted after it had yielded two chunks of one
\* kind, and the history was written again afterwards.
C1_Witness ==
    \E t \in TaskIds :
        /\ tasks[t].pc = "cancelled"
        /\ tasks[t].nchunks = 2
        /\ tasks[t].out[1].kind = tasks[t].out[2].kind
        /\ tasks[t].out[1].content # tasks[t].out[2].content

\* C2: at most one generation of the stream rule is active at any time, and a
\* new one starts only when none is active (an interrupted one was cancelled
\* before).
C2_OneActiveGenerationPerRule ==
    /\ [](Cardinality({t \in TaskIds : Active(t)}) <= 1)
    /\ [][next_task' # next_task => (\A t \in TaskIds : ~Active(t))]_vars

\* C2's case: a generation was interrupted and the next one is running.
C2_Witness ==
    \E t, u \in TaskIds :
        /\ tasks[t].pc = "cancelled"
        /\ tasks[t].nchunks > 0
        /\ tasks[u].pc = "at_yield"

\* C9 as claimed: the context built for a history of n events and
\* max_context_length m >= 0 holds exactly the last min(n, m) events in order,
\* total_messages is n, and the history still holds its n events.
C9_ContextIsLastMinNM ==
    [][\A t \in TaskIds :
        (tasks[t].pc = "created" /\ tasks'[t].pc = "awaiting") =>
            LET n == Len(History)
                k == IF n <= max_context_length THEN n ELSE max_context_length
            IN  /\ heap'[tasks'[t].ctx_events] = SubSeq(History, n - k + 1, n)
                /\ tasks'[t].ctx_total = n
                /\ heap'[conversation_events'] = History]_vars

\* C10 as claimed: while a generation is under way, the events seen through
\* its context are the events the context was built with.
C10_ContextNeverMutated ==
    \A t \in TaskIds :
        tasks[t].pc \in {"awaiting", "at_yield", "at_final"} =>
            heap[tasks[t].ctx_events] = tasks[t].ctx0

\* C5: whatever the publish order, every subscriber has received only
\* published messages that match its filter, in the order they were published
\* (sequence numbers increase), and a registered subscriber has received every
\* matching message published since it registered.
C5_SubscriberSeesPublishOrder ==
    /\ \A s \in Subscribers :
        LET box == inbox[s]
        IN  /\ \A i \in 1 .. Len(box) :
                  /\ box[i].type = Filter[s]
                  /\ box[i].seq \in 1 .. Len(published)
                  /\ published[box[i].seq] = box[i]
            /\ \A i, j \in 1 .. Len(box) : i < j => box[i].seq < box[j].seq
    /\ \A k \in 1 .. Len(subscriptions) :
        LET s == subscriptions[k].sub
        IN  \A n \in (subscriptions[k].since + 1) .. Len(published) :
                published[n].type = Filter[s] =>
                    \E i \in 1 .. Len(inbox[s]) : inbox[s][i] = published[n]

\* C5's case: a subscriber received two messages with a message of another
\* type published between them, while another subscriber of the same type
\* registered later and received only the second.
C5_Witness ==
    /\ Len(inbox["s1"]) = 2
    /\ inbox["s1"][2].seq = inbox["s1"][1].seq + 2
    /\ Len(inbox["s3"]) = 1

\* C11: a clear_context call on a history of N events returns exactly those N
\* events in their stored order and leaves the history empty.
C11_ClearReturnsHistoryAndEmpties ==
    [][n_clears' # n_clears =>
          /\ cleared_events' = heap[conversation_events]
          /\ heap'[conversation_events'] = <<>>]_vars

\* C11's case: a history of two different events was cleared.
C11_Witness ==
    /\ n_clears > 0
    /\ Len(cleared_events) = 2
    /\ cleared_events[1] # cleared_events[2]
    /\ heap[conversation_events] = <<>>

\* C14: when the transport disconnects while the read loop is receiving, the
\* step that handles it sets the shutdown flag and ends the read loop, and
\* from then on nothing is put on the queue.
C14_DisconnectSetsFlagAndEndsLoop ==
    [][~ws_connected' =>
          /\ shutdown_event'
          /\ enq_log' = enq_log
          /\ Len(input_queue') <= Len(input_queue)
          /\ input_task' \in {"done", "created"}
          /\ (ws_connected => input_task' = "done")]_vars

\* C14's case: the transport disconnected after a message had been enqueued,
\* and the harness was cleaned up and started again afterwards.
C14_Witness ==
    /\ ~ws_connected
    /\ Len(enq_log) >= 1
    /\ input_task = "created"

\* The exceptions a message that cannot be decoded raises.
DecodeFailures == {"JSONDecodeError", "ValidationError"}

\* C17: a decode failure (malformed JSON or a payload that fails validation)
\* neither sets the shutdown flag nor ends the read loop, and the failing
\* message is dropped; every message that was decoded is enqueued, whatever
\* failed before it; and a `message` maps to one UserTranscriptionReceived
\* with the same content.
C17_DecodeFailureSkipsOneMessage ==
    /\ [](/\ enq_log = Decoded(rx_log)
          /\ \A i \in 1 .. Len(got_log) :
                got_log[i].type = "message" =>
                    map_to_events(got_log[i])
                        = <<UserTranscriptionReceived(got_log[i].content)>>)
    /\ [][\A e \in DecodeFailures :
              rx_log' = Append(rx_log, Raised(e)) =>
                  /\ shutdown_event' = shutdown_event
                  /\ input_queue' = input_queue
                  /\ enq_log' = enq_log
                  /\ ~shutdown_event => input_task' \in {"receiving", "sleeping"}]_vars

\* C17's case: a payload failed validation, the next message was a valid
\* `message`, and the consumer got it and mapped it.
C17_Witness ==
    /\ Len(rx_log) = 2
    /\ rx_log[1] = Raised("ValidationError")
    /\ rx_log[2] = Received(TranscriptionInput("yo"))
    /\ got_log = <<TranscriptionInput("yo")>>
    /\ dispatched = <<UserTranscriptionReceived("yo")>>
    /\ ~shutdown_event

\* C20: when cleanup has completed, the read task has finished, the shutdown
\* flag is set, is_running is false and the queue is empty; the entries the
\* drain removed were not returned by get() and not mapped to events.
C20_CleanupLeavesNothingBehind ==
    /\ [](cleanup_pc = "done" =>
              /\ input_task \in {"none", "done"}
              /\ shutdown_event
              /\ ~is_running
              /\ input_queue = <<>>)
    /\ [][cleanup_pc # "done" /\ cleanup_pc' = "done" =>
              /\ got_log' = got_log
              /\ dispatched' = dispatched
              /\ enq_log' = enq_log]_vars

\* C20's case: cleanup cancelled a read task that was still receiving and
\* discarded a queued message, after the consumer had got an earlier one.
C20_Witness ==
    /\ cleanup_pc = "done"
    /\ ws_connected
    /\ input_task = "done"
    /\ Len(got_log) = 1
    /\ Len(enq_log) = 2

\* A user_state or agent_state message whose value is neither speaking nor
\* idle.
UnhandledState(m) ==
    /\ m.type \in {"user_state", "agent_state"}
    /\ m.value \notin {SPEAKING, IDLE}

\* The messages the consumer got that are not of that kind, in order.
RECURSIVE Handled(_)
Handled(log) ==
    IF log = <<>> THEN <<>>
    ELSE IF UnhandledState(Head(log)) THEN Handled(Tail(log))
    ELSE <<Head(log)>> \o Handled(Tail(log))

\* C18 as claimed: every message the consumer got was mapped to at least one
\* event, and a validation_error or a user_state / agent_state with another
\* value than speaking or idle was mapped to UserUnknownInputReceived.
C18_EveryMessageMapsToAnEvent ==
    /\ Len(dispatched) >= Len(got_log)
    /\ \A i \in 1 .. Len(got_log) :
          LET m == got_log[i]
          IN  /\ Len(map_to_events(m)) >= 1
              /\ (m.type = "validation_error" \/ UnhandledState(m)) =>
                     map_to_events(m) = <<UserUnknownInputReceived(model_dump_json(m))>>

\* C18, amended: every message the consumer got was mapped to exactly one
\* event, but for a user_state / agent_state with another value than speaking
\* or idle, which was mapped to no event; a validation_error was mapped to
\* UserUnknownInputReceived carrying the message's JSON text.
C18_EveryMessageButUnhandledStates ==
    /\ Len(dispatched) = Len(Handled(got_log))
    /\ \A i \in 1 .. Len(got_log) :
          LET m == got_log[i]
          IN  IF UnhandledState(m)
                THEN map_to_events(m) = <<>>
                ELSE /\ Len(map_to_events(m)) = 1
                     /\ m.type = "validation_error" =>
                            map_to_events(m)
                                = <<UserUnknownInputReceived(model_dump_json(m))>>

\* C18's case: the consumer got a user_state with an unknown value and then a
\* validation_error, and only the second gave an event.
C18_Witness ==
    /\ got_log = <<UserStateInput("away"), ValidationErrorInput("bad", "schema")>>
    /\ dispatched
         = <<UserUnknownInputReceived(model_dump_json(ValidationErrorInput("bad", "schema")))>>

\* The inbound variants of the protocol table.
InTable(m) ==
    /\ m.type \in {"user_state", "agent_state", "message", "agent_speech", "dtmf", "custom"}
    /\ ~UnhandledState(m)

\* The event the protocol table gives for each of them.
ProtocolTable(m) ==
    CASE m.type = "user_state" /\ m.value = SPEAKING -> UserStartedSpeaking
      [] m.type = "user_state" /\ m.value = IDLE -> UserStoppedSpeaking
      [] m.type = "agent_state" /\ m.value = SPEAKING -> AgentStartedSpeaking
      [] m.type = "agent_state" /\ m.value = IDLE -> AgentStoppedSpeaking
      [] m.type = "message" -> [kind |-> "UserTranscriptionReceived", content |-> m.content]
      [] m.type = "agent_speech" -> [kind |-> "AgentSpeechSent", content |-> m.content]
      [] m.type = "dtmf" -> [kind |-> "DTMFInputEvent", button |-> m.button]
      [] m.type = "custom" -> [kind |-> "CustomReceived", metadata |-> m.metadata]

\* C19: when every message the consumer got is a variant of the protocol
\* table, each was mapped to exactly one event, the one the table names, with
\* the message's payload unchanged.
C19_MapFollowsProtocolTable ==
    (\A i \in 1 .. Len(got_log) : InTable(got_log[i])) =>
        /\ Len(dispatched) = Len(got_log)
        /\ \A i \in 1 .. Len(got_log) : dispatched[i] = ProtocolTable(got_log[i])

\* C19's case: two messages of different variants, one with a payload, were
\* got and mapped.
C19_Witness ==
    /\ got_log = <<AgentStateInput(SPEAKING), DTMFInput("1")>>
    /\ Len(dispatched) = 2

\* The last entry of a nonempty sequence.
Last(q) == q[Len(q)]

\* C12: while the shutdown flag is set no send operation starts a
\* transmission: a _send call made then is logged as not started, its caller
\* does not enter send_json and nothing is transmitted for it, then or later
\* (every transmitted message is one whose transmission started while the
\* flag was clear).
C12_NoSendStartsAfterShutdown ==
    /\ [](\A i \in 1 .. Len(sent) : tx_log[sent[i]].started)
    /\ [][shutdown_event =>
              /\ \A c \in Callers : calls'[c].pc = "sending" => calls'[c] = calls[c]
              /\ Len(tx_log') > Len(tx_log) =>
                     /\ ~Last(tx_log').started
                     /\ sent' = sent]_vars

\* C12's case: one message was transmitted, the flag was set, and an end_call
\* made afterwards was dropped.
C12_Witness ==
    /\ shutdown_event
    /\ Len(tx_log) = 2
    /\ tx_log[2] = [kind |-> "end_call", started |-> FALSE]
    /\ sent = <<1>>
    /\ \A c \in Callers : calls[c].pc = "idle"

\* C13 as claimed: when end_call returns, the shutdown flag is set.
C13_EndCallSetsFlag ==
    [][\A c \in Callers :
          (calls[c].op = "end_call" /\ calls'[c].pc = "idle") => shutdown_event']_vars

\* C15: a transfer_call first calls _send for the transfer message and then
\* sleeps for its timeout, whether the message was transmitted, suppressed or
\* failed; the step that ends it comes no earlier than the timeout and sets
\* the flag; the transfer message is transmitted only before the sleep, never
\* once the call has set the flag.
C15_TransferSendsThenSetsFlag ==
    /\ [](\A i \in 1 .. Len(tx_log) :
              Cause("transfer_timeout", i) \in causes =>
                  /\ shutdown_event
                  /\ tx_log[i].kind = "transfer"
                  /\ \A c \in Callers : calls[c].id # i)
    /\ [][/\ \A c \in Callers :
                /\ (calls[c].pc = "idle" /\ calls'[c].op = "transfer") =>
                       /\ Last(tx_log') = [kind |-> "transfer",
                                            started |-> calls'[c].pc = "sending"]
                       /\ calls'[c].pc \in {"sending", "sleeping"}
                /\ (calls[c].op = "transfer" /\ calls[c].pc = "sending"
                        /\ calls'[c] # calls[c]) =>
                       /\ calls'[c].pc = "sleeping"
                       /\ calls'[c].sleep_until = now + calls[c].T
                /\ (calls[c].op = "transfer" /\ calls'[c].pc = "idle") =>
                       /\ calls[c].pc = "sleeping"
                       /\ now >= calls[c].sleep_until
                       /\ shutdown_event'
                       /\ Cause("transfer_timeout", calls[c].id) \in causes'
                       /\ sent' = sent
          /\ (sent' # sent /\ tx_log[Last(sent')].kind = "transfer") =>
                 \E c \in Callers :
                     /\ calls[c].id = Last(sent')
                     /\ calls[c].pc = "sending"]_vars

\* C15's case: one transfer whose message failed and one whose message was
\* suppressed have both run to completion.
C15_Witness ==
    /\ Len(tx_log) = 2
    /\ tx_log[1] = [kind |-> "transfer", started |-> TRUE]
    /\ tx_log[2] = [kind |-> "transfer", started |-> FALSE]
    /\ sent = <<>>
    /\ {Cause("send_failure", 1), Cause("transfer_timeout", 1),
         Cause("transfer_timeout", 2)} \subseteq causes

\* A transfer_call that has been entered and has not returned.
TransferPending(c) == calls[c].op = "transfer" /\ calls[c].pc # "idle"

\* No shutdown cause but the transfer's own has occurred: no disconnect, no
\* cleanup, no end_call, no other operation's failure or timeout.
NoOtherCause(c) ==
    /\ causes \subseteq {Cause("transfer_timeout", calls[c].id),
                          Cause("send_failure", calls[c].id)}
    /\ \A i \in 1 .. Len(tx_log) : tx_log[i].kind # "end_call"

\* The time at which the transfer's timeout has elapsed.
Deadline(c) == calls[c].t0 + calls[c].T

C21_EnqueueNeverWaits ==
    /\ [](input_task \in {"none", "done"} \cup ReaderSuspended)
    /\ [][\A m \in InputMessages :
              rx_log' = Append(rx_log, Received(m)) =>
                  /\ input_queue' = Append(input_queue, m)
                  /\ input_task' = IF shutdown_event THEN "done" ELSE "receiving"]_vars

\* C21's case: the consumer never called get, two messages are queued and the
\* read loop is receiving again.
C21_Witness ==
    /\ Len(input_queue) = 2
    /\ got_log = <<>>
    /\ input_task = "receiving"

\* p is a prefix of q.
IsPrefix(p, q) == Len(p) <= Len(q) /\ SubSeq(q, 1, Len(p)) = p

\* C22: the messages get() has returned are a prefix of the decoded messages
\* in the order the transport delivered them, and as long as cleanup has not
\* drained the queue the rest of them is what the queue holds, in order.
C22_GetReturnsPrefixOfDecoded ==
    /\ IsPrefix(got_log, Decoded(rx_log))
    /\ Cause("cleanup", 0) \notin causes => got_log \o input_queue = Decoded(rx_log)

\* C22's case: two different messages were delivered, the consumer got the
\* first before the second arrived, and then the second.
C22_Witness ==
    /\ Len(got_log) = 2
    /\ got_log[1] # got_log[2]
    /\ got_log = Decoded(rx_log)

\* The text of a fallback answer.
IsAgentResponse(ev) == ev.kind = "AgentResponse"

\* C23 as claimed: when process_context has raised, the exception has not left
\* generate for its caller, and generate has yielded a fallback answer.
C23_ExceptionCaughtWithFallback ==
    \A t \in TaskIds :
        tasks[t].pc_raised =>
            /\ tasks[t].pc # "raised"
            /\ \E i \in 1 .. Len(tasks[t].out) : IsAgentResponse(tasks[t].out[i])

\* The operations of a log of the endpoint's calls.
Ops(log) == [i \in 1 .. Len(log) |-> log[i].op]

\* i comes before j in the sequence q of different elements, when both occur.
Before(i, j, q) ==
    \A a, b \in 1 .. Len(q) : (q[a] = i /\ q[b] = j) => a < b

\* A step of the endpoint or of what it waits for.
EndpointProgress ==
    \/ EndpointSendError
    \/ EndpointEndCall
    \/ EndpointCleanup
    \/ EndpointReturns
    \/ SendDone(EndpointTask)
    \/ SendFails(EndpointTask)
    \/ ReaderCancelled
    \/ CleanupFinish

InProgress(t) == tasks[t].pc \in {"awaiting", "at_yield", "at_final"}

\* C25 as claimed: while a generation is in progress, every add_event on the
\* node's history is the one generate makes for a chunk of that generation.
C25_OnlyGeneratingTaskWrites ==
    [][(n_adds' # n_adds /\ \E t \in TaskIds : InProgress(t)) =>
          \E t \in TaskIds : InProgress(t) /\ tasks'[t].nchunks = tasks[t].nchunks + 1]_vars

\* C26 as claimed: the events one generation has written form a contiguous
\* block of the events written to the history, with no event of the
\* transcription rule between them.
C26_GenerationBlockContiguous ==
    \A t \in TaskIds : Occurs(ChunksOf(t), add_log)

\* C27: the registry keeps one alias per event type. Every handle gives the
\* same alias for every event type; an alias, once set, stays as it is; and a
\* register call for an event type that has an alias raises ValueError and
\* leaves every dict as it was.
C27_OneAliasPerEventType ==
    /\ [](\A i, j \in 1 .. Len(handles) : \A et \in RegisteredTypes :
              get(registries[handles[i]], et) = get(registries[handles[j]], et))
    /\ [][\A i \in InstanceIds : \A et \in DOMAIN registries[i] :
              /\ et \in DOMAIN registries'[i]
              /\ registries'[i][et] = registries[i][et]]_vars
    /\ [][(reg_calls' # reg_calls
            /\ last_register'.event_type \in DOMAIN last_register'.before) =>
              /\ last_register'.raised = "ValueError"
              /\ registries' = registries]_vars

\* Two handles exist, an event type was registered, and a second register
\* call for it, made through the second handle, has just raised.
C27_Witness ==
    /\ Len(handles) = 2
    /\ last_register.handle = 2
    /\ last_register.raised = "ValueError"
    /\ last_register.alias.is_str
    /\ last_register.alias # last_register.before[last_register.event_type]
    /\ get(registries[handles[1]], last_register.event_type)
           = last_register.before[last_register.event_type]

\* C28 as claimed: no two event types of a registry share one alias.
C28_NoTwoTypesShareAlias ==
    \A i \in InstanceIds : \A e1, e2 \in DOMAIN registries[i] :
        e1 # e2 => registries[i][e1] # registries[i][e2]

\* C30: the escalation flag starts false and is true only after a write; every
\* write is made by CustomerServiceNode and stores true; the flag never goes
\* back to false; and an invocation of EscalationNode.process_context that
\* begins with the flag set yields nothing.
C30_EscalationFlagMonotonic ==
    /\ [](call_state.escalation_detected => flag_writes # {})
    /\ [](\A w \in flag_writes : w.by = "CustomerServiceNode" /\ w.to)
    /\ [][call_state.escalation_detected => call_state'.escalation_detected]_vars
    /\ [](\A i \in 1 .. Len(esc_runs) :
              esc_runs[i].flag_at_entry => esc_runs[i].yielded = 0)

\* An invocation that began with the flag clear yielded an alert; the flag was
\* set before the next invocation, which had a context long enough for an
\* analysis, found the flag set and yielded nothing.
C30_Witness ==
    /\ call_state.escalation_detected
    /\ Len(esc_runs) = 2
    /\ esc_runs[1] = Run(FALSE, MinContext, 1)
    /\ esc_runs[2] = Run(TRUE, MinContext, 0)

\* C29 as claimed: when receive_json raises an error of the `except Exception`
\* branch again and again without end, the read loop at some point sets the
\* shutdown flag and terminates.
C29_RepeatedFailureEndsTheLoop ==
    ([]<><<\E e \in OtherErrors : RecvFails(e)>>_vars) =>
        <>(shutdown_event /\ input_task = "done")

\* The generation CustomerServiceNode.process_context last ran in.
CSTask == cs_node.task

\* C31: a failure inside CustomerServiceNode.process_context never leaves
\* generate as an exception. After the failure the generation has yielded what
\* it had yielded before, then the one fallback AgentResponse and no other
\* chunk; all of these are in the history; and generate goes on to
\* AgentGenerationComplete.
C31_FailureGivesOneFallback ==
    /\ \A t \in TaskIds : tasks[t].pc # "raised" /\ ~tasks[t].pc_raised
    /\ cs_node.failed =>
          /\ ChunksOf(CSTask) = Append(cs_node.before, Fallback)
          /\ \A i \in 1 .. Len(ChunksOf(CSTask)) : Reflected(ChunksOf(CSTask)[i], History)
          /\ tasks[CSTask].pc \in {"at_yield", "awaiting", "at_final", "done"}
          /\ tasks[CSTask].pc = "awaiting" => ENABLED CSGenEnd(CSTask)
          /\ tasks[CSTask].pc \in {"at_final", "done"} =>
                 tasks[CSTask].out = Append(ChunksOf(CSTask), AgentGenerationComplete)

\* A tool call failed after its ToolResult was yielded, and the generation
\* has ended.
C31_Witness ==
    /\ cs_node.failed
    /\ cs_node.before = <<ToolResult(<<"t">>)>>
    /\ tasks[CSTask].pc = "done"
    /\ tasks[CSTask].out = <<ToolResult(<<"t">>), Fallback, AgentGenerationComplete>>

\* The events of the context that are committed: what the user said and what
\* the agent was confirmed to have spoken.
Committed(events) ==
    SelectSeq(events,
              LAMBDA ev : ev.kind \in {"UserTranscriptionReceived", "AgentSpeechSent"})

\* C32: get_committed_transcript returns one turn for every
\* UserTranscriptionReceived and every AgentSpeechSent event of the context, in
\* their order: the transcription itself, and an AgentResponse with the content
\* of the speech event. Nothing else is returned and the context's events are
\* as they were before the call.
C32_CommittedTranscript ==
    committed_turns.called =>
        LET kept == Committed(committed_turns.events)
            turns == committed_turns.turns
        IN  /\ context_events = committed_turns.events
            /\ Len(turns) = Len(kept)
            /\ \A i \in 1 .. Len(kept) :
                   /\ kept[i].kind = "UserTranscriptionReceived" => turns[i] = kept[i]
                   /\ kept[i].kind = "AgentSpeechSent" =>
                          /\ turns[i].kind = "AgentResponse"
                          /\ turns[i].content = kept[i].content

\* The transcript of a context that holds a generated response, a speech
\* event and a transcription.
C32_Witness ==
    /\ committed_turns.called
    /\ context_events = <<AgentResponse(<<"x">>), AgentSpeechSent(<<"s">>),
                          UserTranscriptionReceived(<<"a">>)>>
    /\ committed_turns.turns = <<AgentResponse(<<"s">>), UserTranscriptionReceived(<<"a">>)>>

\* C33: while the shutdown flag is set the read loop never begins a receive;
\* a receive that was pending when the flag was set ends the loop when it
\* completes, whatever it gives; so a message is enqueued with the flag set
\* only by that pending receive, and the loop is over with that step.
C33_OneMessageAfterShutdown ==
    /\ [][(shutdown_event /\ input_task # "receiving") => input_task' # "receiving"]_vars
    /\ [][(shutdown_event /\ rx_log' # rx_log) => input_task' = "done"]_vars
    /\ [][(shutdown_event /\ enq_log' # enq_log) =>
              /\ input_task = "receiving"
              /\ input_task' = "done"
              /\ Len(enq_log') = Len(enq_log) + 1]_vars

\* A send failed while the read loop was in receive_json; the one message that
\* receive gave was enqueued and the loop ended, with the transport connected
\* and no cleanup.
C33_Witness ==
    /\ causes = {Cause("send_failure", 1)}
    /\ rx_log = <<Received(UserStateInput(SPEAKING))>>
    /\ input_queue = <<UserStateInput(SPEAKING)>>
    /\ input_task = "done"
    /\ ws_connected

\* C34: no step of the harness takes the shutdown flag from set to clear.
C34_ShutdownFlagMonotonic ==
    [][shutdown_event => shutdown_event']_vars

\* The flag was set by a failed send; since then cleanup has run, the harness
\* was started again, its new read task has exited, and a second send was
\* suppressed.
C34_Witness ==
    /\ shutdown_event
    /\ causes = {Cause("send_failure", 1), Cause("cleanup", 0)}
    /\ is_running
    /\ input_task = "done"
    /\ Len(tx_log) = 2
    /\ ~tx_log[2].started

\* C36: the step in which a transmission fails sets the shutdown flag and
\* takes the operation where a successful send would have taken it (back to
\* its caller, or into the sleep of transfer_call); no caller is ever left
\* with an exception; and every _send call made after a failure is suppressed
\* (a transmission that was under way when another one failed is not such a
\* call).
C36_SendFailureIsContained ==
    /\ [](\A c \in Callers : calls[c].pc \in {"idle", "sending", "sleeping"})
    /\ [][\A c \in Callers :
              (calls[c].pc = "sending" /\ calls'[c] # calls[c] /\ sent' = sent) =>
                  /\ shutdown_event'
                  /\ Cause("send_failure", calls[c].id) \in causes'
                  /\ calls'[c] = AfterSend(calls[c])]_vars
    /\ [][((\E i \in 1 .. Len(tx_log) : Cause("send_failure", i) \in causes)
               /\ Len(tx_log') > Len(tx_log)) =>
              /\ ~Last(tx_log').started
              /\ \A c \in Callers : calls'[c].pc = "sending" => calls[c].pc = "sending"]_vars

\* The first send failed and the message sent after it was suppressed; both
\* operations have returned.
C36_Witness ==
    /\ causes = {Cause("send_failure", 1)}
    /\ tx_log = <<[kind |-> "message", started |-> TRUE],
                  [kind |-> "message", started |-> FALSE]>>
    /\ sent = <<>>
    /\ \A c \in Callers : calls[c] = NoCall

\* C35: no read task is ever left running beside the one self.input_task
\* names; while is_running is true no new task appears; and a task created
\* with the shutdown flag set (a start() after cleanup()) ends at its first
\* step, with nothing received and nothing enqueued.
C35_AtMostOneReadTask ==
    /\ [](orphan_tasks = 0)
    /\ [][(is_running /\ input_task' = "created") => input_task = "created"]_vars
    /\ [][(shutdown_event /\ input_task = "created" /\ input_task' # "created") =>
              /\ input_task' = "done"
              /\ UNCHANGED <<rx_log, enq_log, input_queue>>]_vars

\* After a message was received the harness was cleaned up and started
\* again, and the new task has exited; start() was the last call.
C35_Witness ==
    /\ Cause("cleanup", 0) \in causes
    /\ is_running
    /\ cleanup_pc = "idle"
    /\ input_task = "done"
    /\ ws_connected
    /\ Len(rx_log) = 1

\* A cleanup() call made now changes nothing.
CleanupChangesNothing == ~ENABLED (CleanupBegin /\ vars' # vars)

\* C40: once a cleanup() has completed, another cleanup() call returns at once
\* and changes nothing, whether the first one found a running read task, a
\* read task that had ended by itself, or none at all; a first cleanup() on a
\* harness that was never started, or whose read task has ended, completes in
\* its first step.
C40_CleanupIdempotent ==
    /\ cleanup_pc = "done" => CleanupChangesNothing
    /\ (cleanup_pc = "idle" /\ input_task \in {"none", "done"}) =>
          ~ENABLED (CleanupBegin /\ cleanup_pc' # "done")

\* cleanup() has completed on a harness whose read loop had ended by itself
\* at a disconnect, after it had enqueued a message.
C40_Witness ==
    /\ cleanup_pc = "done"
    /\ causes = {Cause("disconnect", 0), Cause("cleanup", 0)}
    /\ Len(enq_log) = 1
    /\ ENABLED CleanupBegin

\* ------------------------------------------- generations that do not complete
\* The consumer closes the generator (aclose) where it is suspended at a
\* yield, or before it was started: GeneratorExit is raised at the yield,
\* nothing of generate runs again and its frame (ctx) is dropped.
GenClose(t) ==
    /\ tasks[t].pc \in {"created", "at_yield", "at_final"}
    /\ tasks' = [tasks EXCEPT ![t] =
            [@ EXCEPT !.pc = "closed", !.ctx_events = NoList, !.ctx0 = <<>>]]
    /\ heap' = Collect(heap, conversation_events, tasks')
    /\ UNCHANGED <<conversation_events, max_context_length, next_task, cleared_events,
                   n_adds, n_clears, add_log, queued_triggers>>
    /\ UNCHANGED restOfNode

\* A caller whose generations may be cancelled, closed, or end with an
\* exception of process_context.
NextAbort ==
    \/ \E ev \in DirectEvents : AddEventCall(ev)
    \/ GenerateCall
    \/ GenerateSteps
    \/ \E t \in TaskIds : GenRaise(t)
    \/ \E t \in TaskIds : UserStartedSpeakingRule(t)
    \/ \E t \in TaskIds : GenClose(t)

SpecAbort == InitCall /\ [][NextAbort]_vars

Aborted == {"cancelled", "closed", "raised"}

\* C37: the step that cancels or closes a generation before process_context's
\* sequence has completed, or in which process_context raises, yields nothing
\* (no AgentGenerationComplete) and leaves the history as it was; a generation
\* that ended this way has never yielded AgentGenerationComplete unless it was
\* already suspended after it, and it yields and adds nothing afterwards.
C37_AbortedCycleEmitsNoCompletion ==
    /\ [][\A t \in TaskIds :
              (tasks[t].pc \in {"created", "awaiting", "at_yield"}
                   /\ tasks'[t].pc \in Aborted) =>
                  /\ \A i \in 1 .. Len(tasks'[t].out) :
                         tasks'[t].out[i] # AgentGenerationComplete
                  /\ tasks'[t].out = tasks[t].out
                  /\ tasks'[t].nchunks = tasks[t].nchunks
                  /\ conversation_events' = conversation_events
                  /\ heap'[conversation_events] = heap[conversation_events]]_vars
    /\ [][\A t \in TaskIds : tasks[t].pc \in Aborted => tasks'[t] = tasks[t]]_vars

\* One generation ended with an exception after it had stored a chunk, a later
\* one was cancelled or closed after it had stored another, and the history
\* holds both chunks.
C37_Witness ==
    /\ tasks[1].pc = "raised"
    /\ tasks[1].nchunks = 1
    /\ tasks[2].pc \in {"cancelled", "closed"}
    /\ tasks[2].nchunks = 1
    /\ Len(History) = 2
    /\ History[2].content = tasks[1].out[1].content \o tasks[2].out[1].content

\* C38: every add_event call either replaces the last entry of the history by
\* the merged entry (the event and the last entry are of one mergeable kind;
\* the length stays) or appends the event as one new entry (in every other
\* case, so always for an event of a non-mergeable kind); the entries before
\* the last are unchanged and the node keeps the same list.
C38_AddEventReplacesLastOrAppends ==
    [][n_adds' # n_adds =>
          LET old == heap[conversation_events]
              new == heap'[conversation_events]
              event == Last(add_log')
              merges == /\ old # <<>>
                        /\ Last(old).kind = event.kind
                        /\ event.kind \in MergeableKinds
          IN  /\ conversation_events' = conversation_events
              /\ IF merges
                    THEN /\ Len(new) = Len(old)
                         /\ SubSeq(new, 1, Len(old) - 1) = SubSeq(old, 1, Len(old) - 1)
                         /\ Last(new).kind = event.kind
                         /\ Last(new).content = Last(old).content \o event.content
                    ELSE new = Append(old, event)]_vars

\* Two tool results were added one after the other and are two entries.
C38_Witness ==
    /\ Len(History) = 3
    /\ History[2].kind = "ToolResult"
    /\ History[3].kind = "ToolResult"
    /\ n_adds = 3

\* C39: clear_context gives the node a list that nothing else holds; from then
\* on the returned events change in no step, an add_event call (from outside
\* or from a generation that goes on) writes to the node's list only, and the
\* first event added to the empty history is stored as it is, as an entry of
\* its own.
C39_ClearedListIndependent ==
    /\ [][n_clears' # n_clears =>
              /\ conversation_events' \notin Live(conversation_events, tasks)
              /\ \A t \in TaskIds :
                     tasks[t].pc \in {"awaiting", "at_yield", "at_final"} =>
                         heap'[tasks'[t].ctx_events] = heap[tasks[t].ctx_events]]_vars
    /\ [][(n_clears > 0 /\ n_clears' = n_clears) => cleared_events' = cleared_events]_vars
    /\ [][(n_clears > 0 /\ n_adds' # n_adds) =>
              /\ \A i \in ListIds \ {conversation_events} : heap'[i] = heap[i]
              /\ heap[conversation_events] = <<>> =>
                     heap'[conversation_events] = <<Last(add_log')>>]_vars

\* A generation that was suspended after its first chunk when clear_context
\* was called has gone on and stored a second chunk of the same kind: the
\* returned events end with the first chunk, the history holds the second.
C39_Witness ==
    /\ n_clears = 1
    /\ Len(cleared_events) = 2
    /\ cleared_events[2].kind = "AgentResponse"
    /\ \E t \in TaskIds :
           /\ tasks[t].pc = "at_yield"
           /\ tasks[t].nchunks = 2
           /\ History = <<tasks[t].out[2]>>
           /\ History[1].kind = "AgentResponse"

====
